---------------------------- MODULE Spec2Model ----------------------------
(***************************************************************************)
(* Mentorship request lifecycle, chat channel and chat-report capture of   *)
(* the campus app (services/database.js), as a state machine over the      *)
(* shared document store.  Every async function is split at its awaits:    *)
(* one action per store or moderation round trip, so that calls made by    *)
(* independent callers interleave exactly where the JavaScript can yield.  *)
(***************************************************************************)
EXTENDS Integers, Sequences, FiniteSets, TLC

(***************************************************************************)
(* Bounds of the model.                                                    *)
(***************************************************************************)
MaxCalls == 4
MaxChatCalls == 3
MaxSubscriptions == 2
MaxRequestSubscriptions == 3
MaxLoads == 2
MaxIssues == 2
MaxSkillLen == 3
MaxListLen == 2
MaxProfiles == 2

Users == {"A", "B"}
Callers == {"c1", "c2"}

\* Request messages / chat texts, by what the moderation service says of
\* them: "" is the absent message, "abuse" is reported unsafe.
NoText == ""
SafeText == "hello"
UnsafeText == "abuse"
Texts == {SafeText, UnsafeText}

NoDoc == 0
NoTime == 0
NoListener == 0

VARIABLES
    mentorRequests,   \* collection mentorRequests: id -> document
    chatRooms,        \* collection chatRooms: id -> document
    createdFor,       \* history: chat room id -> the request whose accept created it
    messages,         \* collection messages: id -> document
    chatReports,      \* collection chatReports: id -> document
    now,              \* the store's server clock (serverTimestamp)
    calls,            \* number of calls started so far
    pc,               \* per caller: the await the running call is suspended at
    args,             \* per caller: the running (or last) call and its arguments
    moderation,       \* per caller: outcome of the call's moderateContent
    requestDoc,       \* per caller: respondToMentorRequest's requestDoc snapshot
    captured,         \* per caller: what reportChat has loaded so far
    docRef,           \* per caller: id of the document the call added
    result,           \* per caller: "none" while running, then "ok" or the error
    listeners,        \* the store's snapshot listeners (onSnapshot): id -> listener
    chatScreen,       \* the ChatScreen component: props, state, effect cleanup
    activityScreen,   \* the ActivityScreen component: state, effect cleanup
    adminDashboard,   \* the AdminDashboard component: useAuth values, state, route
    applied,          \* the matching function applied and its arguments
    returned          \* what it returned (NotYet before it has)

vars == <<mentorRequests, chatRooms, createdFor, messages, chatReports, now,
          calls, pc, args, moderation, requestDoc, captured, docRef, result,
          listeners, chatScreen, activityScreen, adminDashboard, applied,
          returned>>

\* The skill matching functions: argument and result.
matching == <<applied, returned>>

\* The clients' side: listeners and screens.
client == <<listeners, chatScreen, activityScreen, adminDashboard>>

store == <<mentorRequests, chatRooms, createdFor, messages, chatReports, now>>

\* The elements of an array.
Range(seq) == {seq[i] : i \in DOMAIN seq}

NoCall == [op |-> "none"]
Missing == [exists |-> FALSE]
Nothing == [participants |-> <<>>, messages |-> <<>>]

(***************************************************************************)
(* The moderation collaborator: moderateContent(text, kind) resolves to    *)
(* {safe: true}, {safe: false, reason} or rejects (service unavailable).   *)
(***************************************************************************)
moderateContent(text) ==
    {IF text = UnsafeText THEN "unsafe" ELSE "safe", "error"}

\* A call begins: the caller's locals are fresh.
Begin(p, call, at) ==
    /\ pc[p] = "idle"
    /\ calls < (IF call.op \in {"create", "respond"} THEN MaxCalls ELSE MaxChatCalls)
    /\ calls' = calls + 1
    /\ pc' = [pc EXCEPT ![p] = at]
    /\ args' = [args EXCEPT ![p] = call]
    /\ moderation' = [moderation EXCEPT ![p] = "none"]
    /\ requestDoc' = [requestDoc EXCEPT ![p] = Missing]
    /\ captured' = [captured EXCEPT ![p] = Nothing]
    /\ docRef' = [docRef EXCEPT ![p] = NoDoc]
    /\ result' = [result EXCEPT ![p] = "none"]

\* A call ends: it returns ("ok") or throws (the error kind).
Finish(p, outcome) ==
    /\ UNCHANGED calls
    /\ pc' = [pc EXCEPT ![p] = "idle"]
    /\ result' = [result EXCEPT ![p] = outcome]

Goto(p, at) ==
    /\ UNCHANGED calls
    /\ pc' = [pc EXCEPT ![p] = at]
    /\ UNCHANGED result

(***************************************************************************)
(* sendMentorRequest(fromUserId, toUserId, message)                        *)
(***************************************************************************)
StartSendMentorRequest(p) ==
    \E from \in Users, to \in Users, message \in Texts \cup {NoText} :
        /\ from # to
        /\ Begin(p, [op |-> "create", fromUserId |-> from, toUserId |-> to,
                     message |-> message], "create_moderate")
        /\ UNCHANGED store

\* A mis-handling of the verdict: the fail-open try/catch of sendMessage.
CreateVerdictFailOpen(p, verdict) ==
    /\ moderation' = [moderation EXCEPT ![p] = verdict]
    /\ Goto(p, "create_query")

\* const moderation = await moderateContent(message, 'message');
\* if (!moderation.safe) throw ...   A rejection of moderateContent
\* propagates to the caller: there is no try/catch around it.
CreateVerdict(p, verdict) ==
    /\ moderation' = [moderation EXCEPT ![p] = verdict]
    /\ CASE verdict = "safe" -> Goto(p, "create_query")
         [] verdict = "unsafe" -> Finish(p, "ContentRejected")
         [] verdict = "error" -> Finish(p, "ModerationError")

\* if (message) { ... }: an empty message is not moderated.
CreateModerate(p) ==
    /\ pc[p] = "create_moderate"
    /\ IF args[p].message = NoText
       THEN /\ Goto(p, "create_query")
            /\ UNCHANGED moderation
       ELSE \E verdict \in moderateContent(args[p].message) :
                CreateVerdict(p, verdict)
    /\ UNCHANGED <<store, args, requestDoc, captured, docRef>>

\* A duplicate query that ignores the direction of the request.
existingDocsEitherWay(from, to) ==
    {id \in DOMAIN mentorRequests :
        {mentorRequests[id].senderId, mentorRequests[id].receiverId} = {from, to}}

\* The documents the duplicate query matches.
existingDocs(from, to) ==
    {id \in DOMAIN mentorRequests :
        /\ mentorRequests[id].senderId = from
        /\ mentorRequests[id].receiverId = to}

\* if (!existingDocs.empty) { existing = docs[0].data(); if pending or accepted: throw }
\* `first` is docs[0].  The query has no orderBy and document ids are random
\* auto-ids, so any matching document can be the first one returned.
IsDuplicate(first) ==
    mentorRequests[first].status \in {"pending", "accepted"}

CreateQuery(p) ==
    /\ pc[p] = "create_query"
    /\ LET docs == existingDocs(args[p].fromUserId, args[p].toUserId) IN
       IF docs = {}
       THEN Goto(p, "create_add")
       ELSE \E first \in docs :
               IF IsDuplicate(first)
               THEN Finish(p, "DuplicateRequestError")
               ELSE Goto(p, "create_add")
    /\ UNCHANGED <<store, args, moderation, requestDoc, captured, docRef>>

\* The id of the next document added to a collection.
NewId(collection) == Cardinality(DOMAIN collection) + 1

\* docRef = await addDoc(collection(db, 'mentorRequests'), request)
CreateAdd(p) ==
    /\ pc[p] = "create_add"
    /\ LET id == NewId(mentorRequests) IN
        /\ mentorRequests' = mentorRequests @@
              (id :> [senderId |-> args[p].fromUserId,
                      receiverId |-> args[p].toUserId,
                      message |-> args[p].message,
                      status |-> "pending",
                      createdAt |-> now + 1,
                      respondedAt |-> NoTime])
        /\ docRef' = [docRef EXCEPT ![p] = id]
    /\ now' = now + 1
    /\ Finish(p, "ok")
    /\ UNCHANGED <<chatRooms, createdFor, messages, chatReports, args, moderation,
                   requestDoc, captured>>

(***************************************************************************)
(* respondToMentorRequest(requestId, accept)                               *)
(***************************************************************************)
StartRespond(p) ==
    \E requestId \in 1..NewId(mentorRequests), accept \in BOOLEAN :
        /\ Begin(p, [op |-> "respond", requestId |-> requestId,
                     accept |-> accept], "respond_get")
        /\ UNCHANGED store

\* requestDoc = await getDoc(requestRef); if (!requestDoc.exists()) throw
RespondGet(p) ==
    /\ pc[p] = "respond_get"
    /\ IF args[p].requestId \in DOMAIN mentorRequests
       THEN /\ requestDoc' = [requestDoc EXCEPT ![p] =
                  [exists |-> TRUE,
                   senderId |-> mentorRequests[args[p].requestId].senderId,
                   receiverId |-> mentorRequests[args[p].requestId].receiverId]]
            /\ Goto(p, "respond_update")
       ELSE /\ Finish(p, "NotFoundError")
            /\ UNCHANGED requestDoc
    /\ UNCHANGED <<store, args, moderation, captured, docRef>>

\* The two writes of an accept as one transaction.
RespondUpdateInTransaction(p) ==
    /\ pc[p] = "respond_update"
    /\ mentorRequests' = [mentorRequests EXCEPT ![args[p].requestId] =
          [@ EXCEPT !.status = IF args[p].accept THEN "accepted" ELSE "rejected",
                    !.respondedAt = now + 1]]
    /\ IF args[p].accept
       THEN /\ chatRooms' = chatRooms @@
                  (Cardinality(DOMAIN chatRooms) + 1 :>
                      [participants |-> <<requestDoc[p].senderId,
                                          requestDoc[p].receiverId>>,
                       userIds |-> <<requestDoc[p].senderId,
                                     requestDoc[p].receiverId>>,
                       createdAt |-> now + 1,
                       lastMessageAt |-> now + 1])
            /\ createdFor' = createdFor @@
                  (Cardinality(DOMAIN chatRooms) + 1 :> args[p].requestId)
            /\ docRef' = [docRef EXCEPT ![p] = Cardinality(DOMAIN chatRooms) + 1]
       ELSE UNCHANGED <<chatRooms, createdFor, docRef>>
    /\ now' = now + 1
    /\ Finish(p, "ok")
    /\ UNCHANGED <<messages, chatReports, args, moderation, requestDoc, captured>>

\* await updateDoc(requestRef, {status, respondedAt}): whatever the status is now.
RespondUpdate(p) ==
    /\ pc[p] = "respond_update"
    /\ mentorRequests' = [mentorRequests EXCEPT ![args[p].requestId] =
          [@ EXCEPT !.status = IF args[p].accept THEN "accepted" ELSE "rejected",
                    !.respondedAt = now + 1]]
    /\ now' = now + 1
    /\ IF args[p].accept THEN Goto(p, "respond_add") ELSE Finish(p, "ok")
    /\ UNCHANGED <<chatRooms, createdFor, messages, chatReports, args, moderation,
                   requestDoc, captured, docRef>>

\* A slip in the participants of the new room.
NewChatRoomOneSided(request, at) ==
    [participants |-> <<request.senderId, request.senderId>>,
     userIds |-> <<request.senderId, request.senderId>>,
     createdAt |-> at,
     lastMessageAt |-> at]

\* const chatRoom = { participants, userIds, createdAt, lastMessageAt }, built
\* from the snapshot read before the update; both timestamps are the
\* serverTimestamp() of the one addDoc.
NewChatRoom(request, at) ==
    [participants |-> <<request.senderId, request.receiverId>>,
     userIds |-> <<request.senderId, request.receiverId>>,
     createdAt |-> at,
     lastMessageAt |-> at]

\* if (accept) await addDoc(collection(db, 'chatRooms'), chatRoom)
RespondAdd(p) ==
    /\ pc[p] = "respond_add"
    /\ LET id == NewId(chatRooms) IN
        /\ chatRooms' = chatRooms @@ (id :> NewChatRoom(requestDoc[p], now + 1))
        /\ createdFor' = createdFor @@ (id :> args[p].requestId)
        /\ docRef' = [docRef EXCEPT ![p] = id]
    /\ now' = now + 1
    /\ Finish(p, "ok")
    /\ UNCHANGED <<mentorRequests, messages, chatReports, args, moderation,
                   requestDoc, captured>>

(***************************************************************************)
(* The request lifecycle: any interleaving of create and respond calls.    *)
(***************************************************************************)
Empty == [x \in {} |-> NoDoc]

\* No screen is mounted and no listener is registered.
ChatScreenUnmounted ==
    [mounted |-> FALSE, chatId |-> NoDoc, user |-> NoText,
     unsubscribe |-> NoListener, messages |-> <<>>, loading |-> TRUE,
     error |-> FALSE]

ActivityScreenUnmounted ==
    [mounted |-> FALSE, activeTab |-> "issues", unsubReceived |-> NoListener,
     requests |-> [received |-> <<>>, sent |-> <<>>], loading |-> TRUE]

\* The admin route is not shown.
AdminDashboardUnmounted ==
    [mounted |-> FALSE, location |-> "/", isAuthenticated |-> FALSE,
     isAdmin |-> FALSE, loading |-> TRUE, activeTab |-> "issues",
     unsubscribe |-> "none", loads |-> 0, issues |-> 0, reported |-> 0]

InitClient ==
    /\ listeners = Empty
    /\ chatScreen = ChatScreenUnmounted
    /\ activityScreen = ActivityScreenUnmounted
    /\ adminDashboard = AdminDashboardUnmounted

NotYet == [done |-> FALSE]

InitMatching ==
    /\ applied = NoCall
    /\ returned = NotYet

InitLocals ==
    /\ pc = [p \in Callers |-> "idle"]
    /\ args = [p \in Callers |-> NoCall]
    /\ moderation = [p \in Callers |-> "none"]
    /\ requestDoc = [p \in Callers |-> Missing]
    /\ captured = [p \in Callers |-> Nothing]
    /\ docRef = [p \in Callers |-> NoDoc]
    /\ result = [p \in Callers |-> "none"]

InitRequests ==
    /\ mentorRequests = Empty
    /\ chatRooms = Empty
    /\ createdFor = Empty
    /\ messages = Empty
    /\ chatReports = Empty
    /\ now = 0
    /\ calls = 0
    /\ InitLocals
    /\ InitClient
    /\ InitMatching

NextRequests ==
    /\ \E p \in Callers :
          \/ StartSendMentorRequest(p)
          \/ CreateModerate(p)
          \/ CreateQuery(p)
          \/ CreateAdd(p)
          \/ StartRespond(p)
          \/ RespondGet(p)
          \/ RespondUpdate(p)
          \/ RespondAdd(p)
    /\ UNCHANGED <<client, matching>>

SpecRequests == InitRequests /\ [][NextRequests]_vars

(***************************************************************************)
(* Store failures.  Every getDocs, getDoc, addDoc and updateDoc returns a  *)
(* promise that can reject (network, permissions, quota).  Neither         *)
(* sendMentorRequest nor respondToMentorRequest has a try/catch: the       *)
(* rejection is thrown at the await and leaves the function, whatever the  *)
(* call has written before.                                                *)
(***************************************************************************)
StoreOperations ==
    {"create_query", "create_add", "respond_get", "respond_update", "respond_add"}

\* A failure handler that undoes the status update of a failed accept.
StoreRejectsWithRollback(p) ==
    /\ pc[p] \in StoreOperations
    /\ Finish(p, "StoreError")
    /\ mentorRequests' =
          IF pc[p] = "respond_add"
          THEN [mentorRequests EXCEPT ![args[p].requestId].status = "pending"]
          ELSE mentorRequests
    /\ UNCHANGED <<chatRooms, createdFor, messages, chatReports, now, args,
                   moderation, requestDoc, captured, docRef>>

\* The store operation the call is suspended at rejects.
StoreRejects(p) ==
    /\ pc[p] \in StoreOperations
    /\ Finish(p, "StoreError")
    /\ UNCHANGED <<store, args, moderation, requestDoc, captured, docRef>>

\* One caller's create and respond calls on a store that can fail.
NextStoreFailures ==
    /\ \E p \in {"c1"} :
          \/ StartSendMentorRequest(p)
          \/ CreateModerate(p)
          \/ CreateQuery(p)
          \/ CreateAdd(p)
          \/ StartRespond(p)
          \/ RespondGet(p)
          \/ RespondUpdate(p)
          \/ RespondAdd(p)
          \/ StoreRejects(p)
    /\ UNCHANGED <<client, matching>>

SpecStoreFailures == InitRequests /\ [][NextStoreFailures]_vars

(***************************************************************************)
(* sendMessage(chatRoomId, senderId, text)                                 *)
(***************************************************************************)
StartSendMessage(p) ==
    \E chatRoomId \in DOMAIN chatRooms, senderId \in Users, text \in Texts :
        /\ Begin(p, [op |-> "send", chatRoomId |-> chatRoomId,
                     senderId |-> senderId, text |-> text], "send_moderate")
        /\ UNCHANGED store

\* The handling the request path has: reject unsafe text, propagate an error.
SendVerdictFailClosed(p, verdict) ==
    /\ moderation' = [moderation EXCEPT ![p] = verdict]
    /\ CASE verdict = "safe" -> Goto(p, "send_add")
         [] verdict = "unsafe" -> Finish(p, "ContentRejected")
         [] verdict = "error" -> Finish(p, "ModerationError")

\* try { moderation = await moderateContent(text, 'chat');
\*       if (!moderation.safe) throw new Error('Message blocked: ...') }
\* catch (moderationError) { /* allow message */ }
\* The throw for unsafe text is inside the try, so the catch swallows it like
\* it swallows a rejection of moderateContent: every verdict falls through.
SendVerdict(p, verdict) ==
    /\ moderation' = [moderation EXCEPT ![p] = verdict]
    /\ Goto(p, "send_add")

SendModerate(p) ==
    /\ pc[p] = "send_moderate"
    /\ \E verdict \in moderateContent(args[p].text) : SendVerdict(p, verdict)
    /\ UNCHANGED <<store, args, requestDoc, captured, docRef>>

\* A write that keeps one message document per sender and room:
\* setDoc(doc(db, 'messages', chatRoomId + senderId), message).
SendAddOnePerSender(p) ==
    /\ pc[p] = "send_add"
    /\ LET mine == {m \in DOMAIN messages :
                        /\ messages[m].chatRoomId = args[p].chatRoomId
                        /\ messages[m].senderId = args[p].senderId}
           id == IF mine = {} THEN Cardinality(DOMAIN messages) + 1
                 ELSE CHOOSE m \in mine : TRUE
       IN /\ messages' = [m \in DOMAIN messages \cup {id} |->
                              IF m = id
                              THEN [chatRoomId |-> args[p].chatRoomId,
                                    senderId |-> args[p].senderId,
                                    text |-> args[p].text,
                                    createdAt |-> now + 1]
                              ELSE messages[m]]
          /\ docRef' = [docRef EXCEPT ![p] = id]
    /\ now' = now + 1
    /\ Goto(p, "send_update")
    /\ UNCHANGED <<mentorRequests, chatRooms, createdFor, chatReports, args,
                   moderation, requestDoc, captured>>

\* docRef = await addDoc(collection(db, 'messages'), message)
SendAdd(p) ==
    /\ pc[p] = "send_add"
    /\ LET id == NewId(messages) IN
        /\ messages' = messages @@
              (id :> [chatRoomId |-> args[p].chatRoomId,
                      senderId |-> args[p].senderId,
                      text |-> args[p].text,
                      createdAt |-> now + 1])
        /\ docRef' = [docRef EXCEPT ![p] = id]
    /\ now' = now + 1
    /\ Goto(p, "send_update")
    /\ UNCHANGED <<mentorRequests, chatRooms, createdFor, chatReports, args,
                   moderation, requestDoc, captured>>

\* An update that copies the createdAt of the message the call added:
\* updateDoc(..., {lastMessageAt: message.createdAt}).
SendUpdateWithMessageTime(p) ==
    /\ pc[p] = "send_update"
    /\ chatRooms' = [chatRooms EXCEPT ![args[p].chatRoomId].lastMessageAt =
                         messages[docRef[p]].createdAt]
    /\ now' = now + 1
    /\ Finish(p, "ok")
    /\ UNCHANGED <<mentorRequests, createdFor, messages, chatReports, args,
                   moderation, requestDoc, captured, docRef>>

\* await updateDoc(doc(db, 'chatRooms', chatRoomId), {lastMessageAt})
SendUpdate(p) ==
    /\ pc[p] = "send_update"
    /\ chatRooms' = [chatRooms EXCEPT ![args[p].chatRoomId].lastMessageAt = now + 1]
    /\ now' = now + 1
    /\ Finish(p, "ok")
    /\ UNCHANGED <<mentorRequests, createdFor, messages, chatReports, args,
                   moderation, requestDoc, captured, docRef>>

(***************************************************************************)
(* getMessages(chatRoomId): where chatRoomId == ..., orderBy createdAt asc *)
(***************************************************************************)
RoomMessages(chatRoomId) ==
    {m \in DOMAIN messages : messages[m].chatRoomId = chatRoomId}

\* The store's order for orderBy('createdAt', 'desc').
Latest(S) ==
    CHOOSE m \in S : \A n \in S :
        \/ messages[m].createdAt > messages[n].createdAt
        \/ messages[m].createdAt = messages[n].createdAt /\ m <= n

\* The store's order for orderBy('createdAt', 'asc'): equal timestamps are
\* ordered by document id.
Earliest(S) ==
    CHOOSE m \in S : \A n \in S :
        \/ messages[m].createdAt < messages[n].createdAt
        \/ messages[m].createdAt = messages[n].createdAt /\ m <= n

RECURSIVE OrderByCreatedAt(_)
OrderByCreatedAt(S) ==
    IF S = {} THEN <<>>
    ELSE <<Earliest(S)>> \o OrderByCreatedAt(S \ {Earliest(S)})

\* A paginated query: limit(1).
getMessagesFirstPage(chatRoomId) ==
    SubSeq(OrderByCreatedAt(RoomMessages(chatRoomId)), 1, 1)

\* The ids of the documents returned, in order.
getMessages(chatRoomId) ==
    OrderByCreatedAt(RoomMessages(chatRoomId))

(***************************************************************************)
(* reportChat(chatRoomId, reporterId, reason)                              *)
(***************************************************************************)
StartReportChat(p) ==
    \E chatRoomId \in DOMAIN chatRooms, reporterId \in Users,
       reason \in {NoText, "spam"} :
        /\ Begin(p, [op |-> "report", chatRoomId |-> chatRoomId,
                     reporterId |-> reporterId, reason |-> reason], "report_room")
        /\ UNCHANGED store

\* Validate the reason, then load the channel's current participants.
ReportGetRoom(p) ==
    /\ pc[p] = "report_room"
    /\ IF args[p].reason = NoText
       THEN /\ Finish(p, "ValidationError")
            /\ UNCHANGED captured
       ELSE /\ captured' = [captured EXCEPT ![p].participants =
                               chatRooms[args[p].chatRoomId].participants]
            /\ Goto(p, "report_messages")
    /\ UNCHANGED <<store, args, moderation, requestDoc, docRef>>

\* createdAt?.toDate?.()?.toISOString(): the timestamp as an ISO string.
\* The store's clock counts milliseconds, the precision of the string.
toISOString(timestamp) == [iso |-> timestamp]

\* new Date(createdAt).getTime(): the milliseconds of an ISO string.
getTime(date) == date.iso

\* messagesSnapshot.docs.map(doc => ({id: doc.id, senderId, text,
\* createdAt})): only these fields are copied, createdAt as an ISO string.
CopyOf(m) ==
    [id |-> m,
     senderId |-> messages[m].senderId,
     text |-> messages[m].text,
     createdAt |-> toISOString(messages[m].createdAt)]

\* Array.prototype.sort with (a, b) => new Date(a.createdAt).getTime() -
\* new Date(b.createdAt).getTime(): a stable sort, here by insertion.
RECURSIVE InsertByCreatedAt(_, _)
InsertByCreatedAt(sorted, x) ==
    IF sorted = <<>> THEN <<x>>
    ELSE IF getTime(sorted[Len(sorted)].createdAt) <= getTime(x.createdAt)
         THEN Append(sorted, x)
         ELSE Append(InsertByCreatedAt(SubSeq(sorted, 1, Len(sorted) - 1), x),
                     sorted[Len(sorted)])

\* The list as the store returned it: no local sort.
AsReturned(list) == list

RECURSIVE SortByCreatedAt(_)
SortByCreatedAt(list) ==
    IF list = <<>> THEN <<>>
    ELSE InsertByCreatedAt(SortByCreatedAt(SubSeq(list, 1, Len(list) - 1)),
                           list[Len(list)])

\* All the orders in which a query without orderBy may return the set S.
Orderings(S) ==
    {f \in [1..Cardinality(S) -> S] : \A i, j \in 1..Cardinality(S) :
                                         i # j => f[i] # f[j]}

\* Load the channel's current messages (where chatRoomId == ..., no
\* orderBy), copy the three fields and sort locally.
ReportGetMessages(p) ==
    /\ pc[p] = "report_messages"
    /\ \E docs \in Orderings(RoomMessages(args[p].chatRoomId)) :
          captured' = [captured EXCEPT ![p].messages =
              SortByCreatedAt([i \in 1..Len(docs) |-> CopyOf(docs[i])])]
    /\ Goto(p, "report_add")
    /\ UNCHANGED <<store, args, moderation, requestDoc, docRef>>

\* Persist the new ChatReport, status pending, with the captured snapshot.
ReportAdd(p) ==
    /\ pc[p] = "report_add"
    /\ LET id == NewId(chatReports) IN
        /\ chatReports' = chatReports @@
              (id :> [chatRoomId |-> args[p].chatRoomId,
                      reporterId |-> args[p].reporterId,
                      reason |-> args[p].reason,
                      participants |-> captured[p].participants,
                      messages |-> captured[p].messages,
                      status |-> "pending",
                      createdAt |-> now + 1,
                      reviewedAt |-> NoTime,
                      reviewedBy |-> NoText,
                      adminNotes |-> NoText,
                      actionTaken |-> NoText])
        /\ docRef' = [docRef EXCEPT ![p] = id]
    /\ now' = now + 1
    /\ Finish(p, "ok")
    /\ UNCHANGED <<mentorRequests, chatRooms, createdFor, messages, args,
                   moderation, requestDoc, captured>>

(***************************************************************************)
(* updateChatReportStatus(reportId, newStatus, reviewerId, notes, action)  *)
(***************************************************************************)
Statuses == {"pending", "reviewed", "action_taken"}
Reviewers == {"admin", "A"}

StartUpdateChatReportStatus(p) ==
    \E reportId \in DOMAIN chatReports, newStatus \in Statuses,
       reviewerId \in Reviewers :
        /\ Begin(p, [op |-> "updateStatus", reportId |-> reportId,
                     newStatus |-> newStatus, reviewerId |-> reviewerId,
                     notes |-> "checked", actionTaken |-> "warned"],
                 "update_status")
        /\ UNCHANGED store

\* No check of the transition at all.
AnyTransition(from, to) == TRUE

\* pending -> reviewed -> action_taken only.
AllowedTransition(from, to) ==
    \/ from = "pending" /\ to = "reviewed"
    \/ from = "reviewed" /\ to = "action_taken"

\* The check of the transition and the write are one step on the report.
UpdateChatReportStatus(p) ==
    /\ pc[p] = "update_status"
    /\ IF AllowedTransition(chatReports[args[p].reportId].status, args[p].newStatus)
       THEN /\ chatReports' = [chatReports EXCEPT ![args[p].reportId] =
                  [@ EXCEPT !.status = args[p].newStatus,
                            !.reviewedAt = now + 1,
                            !.reviewedBy = args[p].reviewerId,
                            !.adminNotes = args[p].notes,
                            !.actionTaken = args[p].actionTaken]]
            /\ now' = now + 1
            /\ Finish(p, "ok")
       ELSE /\ Finish(p, "ValidationError")
            /\ UNCHANGED <<chatReports, now>>
    /\ UNCHANGED <<mentorRequests, chatRooms, createdFor, messages, args,
                   moderation, requestDoc, captured, docRef>>

(***************************************************************************)
(* The channel: any interleaving of send, report and review calls on the   *)
(* store as create("A", "B", "hello") and respond(1, true) leave it.       *)
(***************************************************************************)
InitChat ==
    /\ mentorRequests = (1 :> [senderId |-> "A", receiverId |-> "B",
                               message |-> SafeText, status |-> "accepted",
                               createdAt |-> 1, respondedAt |-> 2])
    /\ chatRooms = (1 :> NewChatRoom([senderId |-> "A", receiverId |-> "B"], 3))
    /\ createdFor = (1 :> 1)
    /\ messages = Empty
    /\ chatReports = Empty
    /\ now = 3
    /\ calls = 0
    /\ InitLocals
    /\ InitClient
    /\ InitMatching

NextChat ==
    /\ \E p \in Callers :
          \/ StartSendMessage(p)
          \/ SendModerate(p)
          \/ SendAdd(p)
          \/ SendUpdate(p)
          \/ StartReportChat(p)
          \/ ReportGetRoom(p)
          \/ ReportGetMessages(p)
          \/ ReportAdd(p)
          \/ StartUpdateChatReportStatus(p)
          \/ UpdateChatReportStatus(p)
    /\ UNCHANGED <<client, matching>>

SpecChat == InitChat /\ [][NextChat]_vars

(***************************************************************************)
(* Snapshot listeners.  onSnapshot(q, next, error) registers a listener on *)
(* a query and returns the function that removes it.  The store owes each  *)
(* registered listener a first snapshot and one more whenever the result   *)
(* of its query changes; a listener that is removed, or whose listen has   *)
(* failed, gets no further call.  A listener is "due" (registered, a       *)
(* snapshot owed), "idle" (registered, up to date), "removed" or "failed": *)
(* a call of its callback is the step from "due" to "idle" or "failed".    *)
(***************************************************************************)
server == <<mentorRequests, chatRooms, createdFor, messages, chatReports, now,
            calls, pc, args, moderation, requestDoc, captured, docRef, result>>

\* The registry after onSnapshot; the new listener has the id NewId(registry).
\* `callback` holds the variables the listener's callback closes over.
onSnapshot(registry, q, callback) ==
    registry @@ (NewId(registry) :>
        [query |-> q, status |-> "due", received |-> callback])

\* The function onSnapshot returned, called.
Unsubscribe(registry, l) ==
    [registry EXCEPT ![l].status = IF @ = "failed" THEN "failed" ELSE "removed"]

Registered(registry) ==
    {l \in DOMAIN registry : registry[l].status \in {"due", "idle"}}

CanSubscribe == NewId(listeners) <= MaxSubscriptions

\* subscribeToMessages(chatRoomId, callback, errorCallback): the query of
\* getMessages, listened to.
subscribeToMessages(registry, chatRoomId) ==
    onSnapshot(registry, [collection |-> "messages", chatRoomId |-> chatRoomId],
               <<>>)

\* subscribeToMentorRequests(userId, type, callback)
subscribeToMentorRequests(registry, userId, type, callback) ==
    onSnapshot(registry,
               [collection |-> "mentorRequests",
                field |-> IF type = "received" THEN "receiverId" ELSE "senderId",
                userId |-> userId],
               callback)

RequestsWhere(field, userId) ==
    {id \in DOMAIN mentorRequests : mentorRequests[id][field] = userId}

\* requests.sort((a, b) => bTime - aTime) on the documents in id order:
\* newest first, equal times in id order.
Newest(S) ==
    CHOOSE m \in S : \A n \in S :
        \/ mentorRequests[m].createdAt > mentorRequests[n].createdAt
        \/ mentorRequests[m].createdAt = mentorRequests[n].createdAt /\ m <= n

RECURSIVE NewestFirst(_)
NewestFirst(S) ==
    IF S = {} THEN <<>>
    ELSE <<[id |-> Newest(S), status |-> mentorRequests[Newest(S)].status]>>
             \o NewestFirst(S \ {Newest(S)})

\* What a listener's callback is called with.
QueryResult(q) ==
    IF q.collection = "messages"
    THEN getMessages(q.chatRoomId)
    ELSE NewestFirst(RequestsWhere(q.field, q.userId))

\* A write to the store: every registered listener whose query result
\* changed is owed a snapshot.
Notify ==
    listeners' = [l \in DOMAIN listeners |->
        IF /\ listeners[l].status = "idle"
           /\ \E q \in {listeners[l].query} : QueryResult(q)' # QueryResult(q)
        THEN [listeners[l] EXCEPT !.status = "due"]
        ELSE listeners[l]]

Due(l, collection) ==
    /\ listeners[l].status = "due"
    /\ listeners[l].query.collection = collection

Delivered(registry, l) ==
    [registry EXCEPT ![l].status = "idle"]

\* The listen failed: the error callback is called and the listener ends.
Failed(registry, l) ==
    [registry EXCEPT ![l].status = "failed"]

(***************************************************************************)
(* ChatScreen: useEffect(() => { if (!user || !chatId) return;             *)
(*   const unsubscribe = subscribeToMessages(chatId, ...);                 *)
(*   return () => unsubscribe(); }, [chatId, user])                        *)
(***************************************************************************)
ChatIds == {NoDoc, 1, 2}
ChatUsers == {NoText, "A"}

\* An effect cleanup that forgets to unsubscribe.
ChatScreenCleanupForgets(registry) == registry

\* return () => { unsubscribe(); }
ChatScreenCleanup(registry) ==
    IF chatScreen.unsubscribe # NoListener
    THEN Unsubscribe(registry, chatScreen.unsubscribe)
    ELSE registry

\* The screen is mounted, or re-rendered with another chatId or user: the
\* previous effect's cleanup runs, then the effect.  State (messages,
\* loading, error) is kept across a re-render and fresh on a mount.
ChatScreenRender(chatId, user) ==
    /\ ~chatScreen.mounted \/ <<chatId, user>> # <<chatScreen.chatId, chatScreen.user>>
    /\ LET cleaned == ChatScreenCleanup(listeners) IN
       IF user = NoText \/ chatId = NoDoc
       THEN /\ listeners' = cleaned
            /\ chatScreen' = [chatScreen EXCEPT !.mounted = TRUE,
                                                !.chatId = chatId,
                                                !.user = user,
                                                !.unsubscribe = NoListener]
       ELSE /\ CanSubscribe
            /\ listeners' = subscribeToMessages(cleaned, chatId)
            /\ chatScreen' = [chatScreen EXCEPT !.mounted = TRUE,
                                                !.chatId = chatId,
                                                !.user = user,
                                                !.unsubscribe = NewId(listeners)]
    /\ UNCHANGED <<server, activityScreen, adminDashboard, matching>>

ChatScreenUnmount ==
    /\ chatScreen.mounted
    /\ listeners' = ChatScreenCleanup(listeners)
    /\ chatScreen' = ChatScreenUnmounted
    /\ UNCHANGED <<server, activityScreen, adminDashboard, matching>>

\* (msgs) => { setMessages(msgs); setLoading(false); ... }: msgs is the
\* list of the query's documents, here their ids.  Setting the state of a
\* screen that is no longer mounted does nothing.
MessagesSnapshot(l) ==
    /\ l \in DOMAIN listeners
    /\ Due(l, "messages")
    /\ listeners' = Delivered(listeners, l)
    /\ chatScreen' = IF chatScreen.mounted
                     THEN [chatScreen EXCEPT
                              !.messages = QueryResult(listeners[l].query),
                              !.loading = FALSE]
                     ELSE chatScreen
    /\ UNCHANGED <<server, activityScreen, adminDashboard, matching>>

\* (error) => { setError(...); setLoading(false); }
MessagesError(l) ==
    /\ l \in DOMAIN listeners
    /\ Due(l, "messages")
    /\ listeners' = Failed(listeners, l)
    /\ chatScreen' = IF chatScreen.mounted
                     THEN [chatScreen EXCEPT !.error = TRUE, !.loading = FALSE]
                     ELSE chatScreen
    /\ UNCHANGED <<server, activityScreen, adminDashboard, matching>>

\* handleSend: if (!newMessage.trim() || sending) return; setSending(true);
\* setError(''); await sendMessage(chatId, user.uid, newMessage.trim()).
\* The screen's user sends on the screen's chat, one call at a time (the
\* `sending` flag).
Sequential == {"c1"}

handleSend(p) ==
    /\ chatScreen.mounted
    /\ StartSendMessage(p)
    /\ args'[p].chatRoomId = chatScreen.chatId
    /\ args'[p].senderId = chatScreen.user
    /\ chatScreen' = [chatScreen EXCEPT !.error = FALSE]
    /\ UNCHANGED <<listeners, activityScreen, adminDashboard, matching>>

NextChatScreen ==
    \/ \E p \in Sequential : handleSend(p)
    \/ /\ \E p \in Sequential :
            \/ SendModerate(p)
            \/ SendAdd(p)
            \/ SendUpdate(p)
       /\ Notify
       /\ UNCHANGED <<chatScreen, activityScreen, adminDashboard, matching>>
    \/ \E chatId \in ChatIds, user \in ChatUsers : ChatScreenRender(chatId, user)
    \/ ChatScreenUnmount
    \/ \E l \in DOMAIN listeners : MessagesSnapshot(l)
    \/ \E l \in DOMAIN listeners : MessagesError(l)

SpecChatScreen == InitChat /\ [][NextChatScreen]_vars

(***************************************************************************)
(* ActivityScreen: useEffect(() => { if (!user) return; setLoading(true);  *)
(*   if (activeTab === 'requests' && !isAnonymous) {                       *)
(*     const unsubReceived = subscribeToMentorRequests(uid, 'received',    *)
(*       (received) => {                                                   *)
(*         const unsubSent = subscribeToMentorRequests(uid, 'sent',        *)
(*           (sent) => { setRequests({received, sent}); ... });            *)
(*         return () => unsubSent(); });                                   *)
(*     return () => unsubReceived();                                       *)
(*   } else loadData(); }, [activeTab, user, isAnonymous])                 *)
(***************************************************************************)
ActivityUser == "B"
Tabs == {"issues", "requests"}

\* The requests tab opens a listener per snapshot of the received requests:
\* it takes three listeners for two sent listeners to be open at a time.
CanSubscribeToRequests == NewId(listeners) <= MaxRequestSubscriptions

\* return () => unsubReceived(): the only cleanup the effect returns.
ActivityScreenCleanup(registry) ==
    IF activityScreen.unsubReceived # NoListener
    THEN Unsubscribe(registry, activityScreen.unsubReceived)
    ELSE registry

\* The effect, after the cleanup of the previous one.  On a tab other than
\* requests it calls loadData(), which opens no listener.
ActivityScreenEffect(tab) ==
    LET cleaned == ActivityScreenCleanup(listeners) IN
    IF tab = "requests"
    THEN /\ CanSubscribeToRequests
         /\ listeners' = subscribeToMentorRequests(cleaned, ActivityUser,
                                                   "received", <<>>)
         /\ activityScreen' = [activityScreen EXCEPT
                                  !.mounted = TRUE,
                                  !.activeTab = tab,
                                  !.unsubReceived = NewId(listeners),
                                  !.loading = TRUE]
    ELSE /\ listeners' = cleaned
         /\ activityScreen' = [activityScreen EXCEPT
                                  !.mounted = TRUE,
                                  !.activeTab = tab,
                                  !.unsubReceived = NoListener,
                                  !.loading = TRUE]

\* useState('issues'): the screen opens on the issues tab.
ActivityScreenMount ==
    /\ ~activityScreen.mounted
    /\ ActivityScreenEffect("issues")
    /\ UNCHANGED <<server, chatScreen, adminDashboard, matching>>

\* setActiveTab(tab)
SetActiveTab(tab) ==
    /\ activityScreen.mounted
    /\ tab # activityScreen.activeTab
    /\ ActivityScreenEffect(tab)
    /\ UNCHANGED <<server, chatScreen, adminDashboard, matching>>

ActivityScreenUnmount ==
    /\ activityScreen.mounted
    /\ listeners' = ActivityScreenCleanup(listeners)
    /\ activityScreen' = ActivityScreenUnmounted
    /\ UNCHANGED <<server, chatScreen, adminDashboard, matching>>

\* The callback of the 'received' listener, called with `received`: it
\* opens a listener on the sent requests whose callback closes over
\* `received`.  What the callback returns (() => unsubSent()) is dropped by
\* onSnapshot: nothing keeps the new listener's unsubscribe function.
ReceivedCallback(registry, received) ==
    subscribeToMentorRequests(registry, ActivityUser, "sent", received)

ReceivedSnapshot(l) ==
    /\ l \in DOMAIN listeners
    /\ Due(l, "mentorRequests")
    /\ listeners[l].query.field = "receiverId"
    /\ CanSubscribeToRequests
    /\ listeners' = ReceivedCallback(Delivered(listeners, l),
                                     QueryResult(listeners[l].query))
    /\ UNCHANGED <<server, chatScreen, activityScreen, adminDashboard, matching>>

\* (error) => { console.error(...); callback([]); }
ReceivedError(l) ==
    /\ l \in DOMAIN listeners
    /\ Due(l, "mentorRequests")
    /\ listeners[l].query.field = "receiverId"
    /\ CanSubscribeToRequests
    /\ listeners' = ReceivedCallback(Failed(listeners, l), <<>>)
    /\ UNCHANGED <<server, chatScreen, activityScreen, adminDashboard, matching>>

\* (sent) => { setRequests({ received, sent }); ...; setLoading(false); }
SentCallback(l, sent) ==
    IF activityScreen.mounted
    THEN [activityScreen EXCEPT
             !.requests = [received |-> listeners[l].received, sent |-> sent],
             !.loading = FALSE]
    ELSE activityScreen

SentSnapshot(l) ==
    /\ l \in DOMAIN listeners
    /\ Due(l, "mentorRequests")
    /\ listeners[l].query.field = "senderId"
    /\ listeners' = Delivered(listeners, l)
    /\ activityScreen' = SentCallback(l, QueryResult(listeners[l].query))
    /\ UNCHANGED <<server, chatScreen, adminDashboard, matching>>

SentError(l) ==
    /\ l \in DOMAIN listeners
    /\ Due(l, "mentorRequests")
    /\ listeners[l].query.field = "senderId"
    /\ listeners' = Failed(listeners, l)
    /\ activityScreen' = SentCallback(l, <<>>)
    /\ UNCHANGED <<server, chatScreen, adminDashboard, matching>>

\* The screen of user B, while one client creates and answers requests.
NextActivity ==
    \/ /\ \E p \in Sequential :
            \/ StartSendMentorRequest(p)
            \/ CreateModerate(p)
            \/ CreateQuery(p)
            \/ CreateAdd(p)
            \/ StartRespond(p)
            \/ RespondGet(p)
            \/ RespondUpdate(p)
            \/ RespondAdd(p)
       /\ Notify
       /\ UNCHANGED <<chatScreen, activityScreen, adminDashboard, matching>>
    \/ ActivityScreenMount
    \/ \E tab \in Tabs : SetActiveTab(tab)
    \/ ActivityScreenUnmount
    \/ \E l \in DOMAIN listeners : ReceivedSnapshot(l)
    \/ \E l \in DOMAIN listeners : ReceivedError(l)
    \/ \E l \in DOMAIN listeners : SentSnapshot(l)
    \/ \E l \in DOMAIN listeners : SentError(l)

SpecActivity == InitRequests /\ [][NextActivity]_vars

(***************************************************************************)
(* The admin listings: getAllMentorRequestsForAdmin and                    *)
(* getAllChatRoomsForAdmin, each one getDocs and a map over its documents. *)
(***************************************************************************)
\* orderBy('createdAt', 'desc') on a collection; equal times in id order.
RECURSIVE OrderByCreatedAtDesc(_, _)
OrderByCreatedAtDesc(collection, S) ==
    IF S = {} THEN <<>>
    ELSE LET newest == CHOOSE m \in S : \A n \in S :
                 \/ collection[m].createdAt > collection[n].createdAt
                 \/ collection[m].createdAt = collection[n].createdAt /\ m <= n
         IN <<newest>> \o OrderByCreatedAtDesc(collection, S \ {newest})

\* A listing that returns the whole document: { id: doc.id, ...doc.data() }.
getAllMentorRequestsWithData(requests) ==
    LET docs == OrderByCreatedAtDesc(requests, DOMAIN requests) IN
    [i \in DOMAIN docs |->
        [id |-> docs[i],
         senderId |-> requests[docs[i]].senderId,
         receiverId |-> requests[docs[i]].receiverId,
         message |-> requests[docs[i]].message,
         status |-> requests[docs[i]].status,
         createdAt |-> requests[docs[i]].createdAt,
         respondedAt |-> requests[docs[i]].respondedAt]]

\* snapshot.docs.map(doc => ({ id, senderId, receiverId, status, createdAt,
\* respondedAt })) of the collection `requests`.
getAllMentorRequestsForAdmin(requests) ==
    LET docs == OrderByCreatedAtDesc(requests, DOMAIN requests) IN
    [i \in DOMAIN docs |->
        [id |-> docs[i],
         senderId |-> requests[docs[i]].senderId,
         receiverId |-> requests[docs[i]].receiverId,
         status |-> requests[docs[i]].status,
         createdAt |-> requests[docs[i]].createdAt,
         respondedAt |-> requests[docs[i]].respondedAt]]

\* snapshot.docs.map(doc => ({ id, userIds: data.userIds || ..., createdAt,
\* lastMessageAt, messageCount: 0 })) of the collection `rooms`; `docs` is
\* snapshot.docs (the query has no orderBy).
getAllChatRoomsForAdmin(rooms, docs) ==
    [i \in DOMAIN docs |->
        [id |-> docs[i],
         userIds |-> rooms[docs[i]].userIds,
         createdAt |-> rooms[docs[i]].createdAt,
         lastMessageAt |-> rooms[docs[i]].lastMessageAt,
         messageCount |-> 0]]

\* The admin dashboard loads the request listing.
LoadMentorRequestsForAdmin ==
    /\ applied' = [op |-> "getAllMentorRequestsForAdmin"]
    /\ returned' = [done |-> TRUE,
                    value |-> getAllMentorRequestsForAdmin(mentorRequests)]
    /\ <<applied', returned'>> # <<applied, returned>>
    /\ UNCHANGED <<server, client>>

\* The admin dashboard loads the chat room listing.
LoadChatRoomsForAdmin ==
    /\ applied' = [op |-> "getAllChatRoomsForAdmin"]
    /\ \E docs \in Orderings(DOMAIN chatRooms) :
          returned' = [done |-> TRUE,
                       value |-> getAllChatRoomsForAdmin(chatRooms, docs)]
    /\ <<applied', returned'>> # <<applied, returned>>
    /\ UNCHANGED <<server, client>>

\* One user at a time creates, answers and chats; the admin reads at any
\* moment, also between the two writes of a call.
NextAdmin ==
    \/ /\ \E p \in Sequential :
             \/ StartSendMentorRequest(p)
             \/ CreateModerate(p)
             \/ CreateQuery(p)
             \/ CreateAdd(p)
             \/ StartRespond(p)
             \/ RespondGet(p)
             \/ RespondUpdate(p)
             \/ RespondAdd(p)
             \/ StartSendMessage(p)
             \/ SendModerate(p)
             \/ SendAdd(p)
             \/ SendUpdate(p)
       /\ UNCHANGED <<client, matching>>
    \/ LoadMentorRequestsForAdmin
    \/ LoadChatRoomsForAdmin

SpecAdmin == InitRequests /\ [][NextAdmin]_vars

(***************************************************************************)
(* AdminDashboard, as a component of the values useAuth() returns:         *)
(*   const [loading, setLoading] = useState(true);                         *)
(*   useEffect(() => { if (!loading && (!isAuthenticated || !isAdmin))     *)
(*     navigate('/home'); }, [isAuthenticated, isAdmin, loading, navigate])*)
(*   useEffect(() => { if (!isAdmin) return;                               *)
(*     if (activeTab === 'issues') { const unsubscribe =                   *)
(*         subscribeToAllIssues(issues => { ...; setLoading(false); });    *)
(*       return () => unsubscribe(); }                                     *)
(*     else loadMentorRequests() / loadChatMetadata() / loadChatReports(); *)
(*   }, [isAdmin, activeTab])                                              *)
(*   if (loading) return spinner; if (!isAdmin) return null; return tabs.  *)
(* The issues listener is "none", "due" (a snapshot owed) or "idle";       *)
(* `loads` counts the load...() calls of this instance still in flight,    *)
(* `reported` the issues in the store and `issues` the issues displayed.   *)
(***************************************************************************)
AdminTabs == {"issues", "requests", "chats", "reports"}

\* <<isAuthenticated, isAdmin>> as useAuth() can return them.
AuthValues == {<<FALSE, FALSE>>, <<TRUE, FALSE>>, <<TRUE, TRUE>>}

\* The load effect, after the cleanup of its previous run (unsubscribe()):
\* nothing for a user who is not an admin; a listener on the issues tab; on
\* the other tabs a load...() call, which begins with setLoading(true).
LoadEffect(d) ==
    IF ~d.isAdmin THEN [d EXCEPT !.unsubscribe = "none"]
    ELSE IF d.activeTab = "issues" THEN [d EXCEPT !.unsubscribe = "due"]
    ELSE [d EXCEPT !.unsubscribe = "none", !.loading = TRUE, !.loads = @ + 1]

\* The load effect can run: the load it may start is within the bound.
CanLoad(d) == d.isAdmin /\ d.activeTab # "issues" => d.loads < MaxLoads

\* The redirect effect.  Its condition reads its dependencies only, so it
\* navigates exactly when a render leaves the condition true; the route
\* change unmounts the dashboard, and the unmount runs the cleanup.
RedirectEffect(d) ==
    IF d.mounted /\ ~d.loading /\ (~d.isAuthenticated \/ ~d.isAdmin)
    THEN [AdminDashboardUnmounted EXCEPT !.location = "/home",
                                         !.reported = d.reported]
    ELSE d

\* The dashboard is mounted for the current useAuth values: first render,
\* then both effects.
AdminDashboardMount(isAuthenticated, isAdmin) ==
    /\ ~adminDashboard.mounted
    /\ adminDashboard' =
          RedirectEffect(LoadEffect(
              [AdminDashboardUnmounted EXCEPT !.mounted = TRUE,
                                              !.location = "/admin",
                                              !.reported = adminDashboard.reported,
                                              !.isAuthenticated = isAuthenticated,
                                              !.isAdmin = isAdmin]))
    /\ UNCHANGED <<server, listeners, chatScreen, activityScreen, matching>>

\* useAuth returns other values: the effects whose dependencies changed run.
UseAuthChanges(isAuthenticated, isAdmin) ==
    /\ adminDashboard.mounted
    /\ <<isAuthenticated, isAdmin>> #
          <<adminDashboard.isAuthenticated, adminDashboard.isAdmin>>
    /\ LET rendered == [adminDashboard EXCEPT !.isAuthenticated = isAuthenticated,
                                              !.isAdmin = isAdmin]
       IN /\ CanLoad(rendered)
          /\ adminDashboard' =
                RedirectEffect(IF isAdmin # adminDashboard.isAdmin
                               THEN LoadEffect(rendered) ELSE rendered)
    /\ UNCHANGED <<server, listeners, chatScreen, activityScreen, matching>>

\* (updatedIssues) => { setIssues(...); calculateStats(...); setLoading(false); }
IssuesSnapshot ==
    /\ adminDashboard.mounted
    /\ adminDashboard.unsubscribe = "due"
    /\ adminDashboard' = RedirectEffect([adminDashboard EXCEPT
                                            !.unsubscribe = "idle",
                                            !.issues = adminDashboard.reported,
                                            !.loading = FALSE])
    /\ UNCHANGED <<server, listeners, chatScreen, activityScreen, matching>>

\* An issue is reported: a listener that is up to date is owed a snapshot.
IssuesChange ==
    /\ adminDashboard.reported < MaxIssues
    /\ adminDashboard' = [adminDashboard EXCEPT
                              !.reported = @ + 1,
                              !.unsubscribe = IF @ = "idle" THEN "due" ELSE @]
    /\ UNCHANGED <<server, listeners, chatScreen, activityScreen, matching>>

\* setActiveTab(tab): the tabs are rendered only past both render guards.
SetAdminTab(tab) ==
    /\ adminDashboard.mounted
    /\ ~adminDashboard.loading
    /\ adminDashboard.isAdmin
    /\ tab # adminDashboard.activeTab
    /\ LET rendered == [adminDashboard EXCEPT !.activeTab = tab]
       IN /\ CanLoad(rendered)
          /\ adminDashboard' = RedirectEffect(LoadEffect(rendered))
    /\ UNCHANGED <<server, listeners, chatScreen, activityScreen, matching>>

\* A load...() call settles: finally { setLoading(false); }
LoadSettles ==
    /\ adminDashboard.mounted
    /\ adminDashboard.loads > 0
    /\ adminDashboard' = RedirectEffect([adminDashboard EXCEPT
                                            !.loads = @ - 1,
                                            !.loading = FALSE])
    /\ UNCHANGED <<server, listeners, chatScreen, activityScreen, matching>>

NextAdminDashboard ==
    \/ \E auth \in AuthValues : AdminDashboardMount(auth[1], auth[2])
    \/ \E auth \in AuthValues : UseAuthChanges(auth[1], auth[2])
    \/ IssuesSnapshot
    \/ IssuesChange
    \/ \E tab \in AdminTabs : SetAdminTab(tab)
    \/ LoadSettles

SpecAdminDashboard == InitRequests /\ [][NextAdminDashboard]_vars

\* The store answers: a snapshot owed is delivered and a load settles.
SpecAdminDashboardLive ==
    /\ SpecAdminDashboard
    /\ WF_vars(IssuesSnapshot)
    /\ WF_vars(LoadSettles)

(***************************************************************************)
(* Skill matching: normalizeSkill, skillsMatch, calculateLocalMatchScore.  *)
(* A JavaScript string is the sequence of its characters.                  *)
(***************************************************************************)
UpperCase ==
    <<"A", "B", "C", "D", "E", "F", "G", "H", "I", "J", "K", "L", "M", "N",
      "O", "P", "Q", "R", "S", "T", "U", "V", "W", "X", "Y", "Z">>
LowerCase ==
    <<"a", "b", "c", "d", "e", "f", "g", "h", "i", "j", "k", "l", "m", "n",
      "o", "p", "q", "r", "s", "t", "u", "v", "w", "x", "y", "z">>
Digits == {"0", "1", "2", "3", "4", "5", "6", "7", "8", "9"}
Whitespace == {" "}

\* String.prototype.toLowerCase
toLowerCase(str) ==
    [i \in DOMAIN str |->
        IF \E k \in DOMAIN UpperCase : UpperCase[k] = str[i]
        THEN LowerCase[CHOOSE k \in DOMAIN UpperCase : UpperCase[k] = str[i]]
        ELSE str[i]]

\* String.prototype.trim: leading and trailing whitespace removed.
trim(str) ==
    LET inked == {i \in DOMAIN str : str[i] \notin Whitespace} IN
    IF inked = {} THEN <<>>
    ELSE SubSeq(str, CHOOSE i \in inked : \A j \in inked : i <= j,
                     CHOOSE i \in inked : \A j \in inked : i >= j)

\* replace(/[^a-z0-9\s]/g, ''): every other character is removed.
IsKept(char) == char \in Range(LowerCase) \cup Digits \cup Whitespace

\* skill.toLowerCase().trim().replace(/[^a-z0-9\s]/g, '')
normalizeSkill(skill) ==
    SelectSeq(trim(toLowerCase(skill)), IsKept)

\* String.prototype.includes: part is a contiguous piece of str.
includes(str, part) ==
    \E i \in 0..(Len(str) - Len(part)) : SubSeq(str, i + 1, i + Len(part)) = part

\* String.prototype.split(/\s+/): the pieces between the runs of whitespace;
\* a string that starts (ends) with whitespace has an empty first (last)
\* piece, and the empty string has the one piece "".
RECURSIVE split(_)
split(str) ==
    LET blanks == {i \in DOMAIN str : str[i] \in Whitespace} IN
    IF blanks = {} THEN <<str>>
    ELSE LET first == CHOOSE i \in blanks : \A j \in blanks : i <= j
             after == {i \in DOMAIN str : i > first /\ str[i] \notin Whitespace}
             next == IF after = {} THEN Len(str) + 1
                     ELSE CHOOSE i \in after : \A j \in after : i <= j
         IN <<SubSeq(str, 1, first - 1)>> \o split(SubSeq(str, next, Len(str)))

\* A match that only looks for the second skill inside the first.
skillsMatchOneWay(skill1, skill2) ==
    LET norm1 == normalizeSkill(skill1)
        norm2 == normalizeSkill(skill2)
    IN \/ norm1 = norm2
       \/ includes(norm1, norm2)
       \/ \E w1 \in Range(split(norm1)), w2 \in Range(split(norm2)) :
             w1 = w2 \/ includes(w1, w2)

\* skillsMatch(skill1, skill2): equal, or one contains the other, or a word
\* of one equals or contains a word of the other, after normalisation.
skillsMatch(skill1, skill2) ==
    LET norm1 == normalizeSkill(skill1)
        norm2 == normalizeSkill(skill2)
    IN \/ norm1 = norm2
       \/ includes(norm1, norm2) \/ includes(norm2, norm1)
       \/ \E w1 \in Range(split(norm1)), w2 \in Range(split(norm2)) :
             w1 = w2 \/ includes(w1, w2) \/ includes(w2, w1)

\* Math.round((matchCount / length) * 100) in double arithmetic.  The
\* quotient is rounded to a double before it is multiplied: for the pairs
\* (matchCount, length) below, whose exact percentage ends in .5, the
\* product is just under the half and rounds down (23 / 40 * 100 is
\* 57.49999999999999).  These are all such pairs for a length under 240.
JustBelowHalf ==
    {<<23, 40>>, <<46, 80>>, <<69, 120>>, <<92, 160>>,
     <<29, 200>>, <<57, 200>>, <<113, 200>>, <<115, 200>>}

\* Rounding to the nearest integer, halves up.
RoundedShare(matchCount, length) ==
    (200 * matchCount + length) \div (2 * length)

\* Truncation instead of rounding.
MathFloor(matchCount, length) ==
    (100 * matchCount) \div length

MathRound(matchCount, length) ==
    IF <<matchCount, length>> \in JustBelowHalf
    THEN RoundedShare(matchCount, length) - 1
    ELSE RoundedShare(matchCount, length)

\* for (const hasSkill of mentorHas) if (skillsMatch(wantedSkill, hasSkill))
\* { matchedSkills.push(hasSkill); matchCount++; break; }
\* The positions in mentorHas of the entries that match wantedSkill.
MatchesOf(wantedSkill, mentorHas) ==
    {i \in DOMAIN mentorHas : skillsMatch(wantedSkill, mentorHas[i])}

\* matchedSkills as pushed by the two loops, one entry per wanted skill that
\* has a match: the first matching entry of mentorHas.
Pushed(learnerWants, mentorHas) ==
    LET first == [i \in DOMAIN learnerWants |->
                    LET found == MatchesOf(learnerWants[i], mentorHas) IN
                    IF found = {} THEN <<>>
                    ELSE <<mentorHas[CHOOSE j \in found : \A k \in found : j <= k]>>]
        hits == SelectSeq(first, LAMBDA f : f # <<>>)
    IN [i \in DOMAIN hits |-> hits[i][1]]

\* [...new Set(matchedSkills)]: first occurrences, in order.
RECURSIVE Distinct(_)
Distinct(list) ==
    IF list = <<>> THEN <<>>
    ELSE LET front == Distinct(SubSeq(list, 1, Len(list) - 1)) IN
         IF list[Len(list)] \in Range(front) THEN front
         ELSE Append(front, list[Len(list)])

calculateLocalMatchScore(learnerWants, mentorHas) ==
    IF learnerWants = <<>> \/ mentorHas = <<>>
    THEN [score |-> 0, matchedSkills |-> <<>>]
    ELSE LET matchedSkills == Pushed(learnerWants, mentorHas) IN
         [score |-> MathRound(Len(matchedSkills), Len(learnerWants)),
          matchedSkills |-> Distinct(matchedSkills)]

(***************************************************************************)
(* searchMentors(currentUserId, searchQuery, searchSkills).  `profiles` is *)
(* the profiles collection as getDocs enumerates it: the i-th document is  *)
(* the profile of user i (createProfile stores it under the user's id).    *)
(* No modelled operation writes a profile between the two reads.           *)
(***************************************************************************)
MaxResults == 20

\* An argument that is not passed, and one that is.
Undefined == [given |-> FALSE, list |-> <<>>]
Given(list) == [given |-> TRUE, list |-> list]

\* String.prototype.split(/[,;]/): the pieces between the delimiters.
RECURSIVE splitOnDelimiters(_)
splitOnDelimiters(str) ==
    LET marks == {i \in DOMAIN str : str[i] \in {",", ";"}} IN
    IF marks = {} THEN <<str>>
    ELSE LET first == CHOOSE i \in marks : \A j \in marks : i <= j IN
         <<SubSeq(str, 1, first - 1)>>
             \o splitOnDelimiters(SubSeq(str, first + 1, Len(str)))

\* searchQuery.split(/[,;]/).map(s => s.trim()).filter(s => s.length > 0)
parsedSkills(searchQuery) ==
    LET pieces == splitOnDelimiters(searchQuery) IN
    SelectSeq([i \in DOMAIN pieces |-> trim(pieces[i])], LAMBDA piece : piece # <<>>)

\* A resolution that takes the parsed list of every non-empty query.
skillsToMatchFromAnyQuery(currentProfile, searchQuery, searchSkills) ==
    IF searchQuery # <<>> THEN parsedSkills(searchQuery)
    ELSE IF searchSkills.given THEN searchSkills.list
    ELSE currentProfile.skillsToLearn

\* let skillsToMatch = searchSkills || currentProfile.skillsToLearn || ...;
\* if (searchQuery && searchQuery.trim()) { parsedSkills = ...;
\*   if (parsedSkills.length > 0) skillsToMatch = parsedSkills; }
\* An array, also an empty one, is truthy: searchSkills = [] stays [].
skillsToMatch(currentProfile, searchQuery, searchSkills) ==
    IF trim(searchQuery) # <<>> /\ parsedSkills(searchQuery) # <<>>
    THEN parsedSkills(searchQuery)
    ELSE IF searchSkills.given THEN searchSkills.list
    ELSE currentProfile.skillsToLearn

\* A comparator that looks at the score only.
BeforeByScoreOnly(a, b) ==
    a.matchScore > b.matchScore

\* sort((a, b) => b.matchScore !== a.matchScore ? b.matchScore - a.matchScore
\*                : b.matchedSkills.length - a.matchedSkills.length) < 0
Before(a, b) ==
    \/ a.matchScore > b.matchScore
    \/ /\ a.matchScore = b.matchScore
       /\ Len(a.matchedSkills) > Len(b.matchedSkills)

\* Array.prototype.sort is stable: x goes behind every element it is not
\* before.
RECURSIVE InsertRanked(_, _)
InsertRanked(sorted, x) ==
    IF sorted = <<>> THEN <<x>>
    ELSE IF Before(x, sorted[Len(sorted)])
         THEN Append(InsertRanked(SubSeq(sorted, 1, Len(sorted) - 1), x),
                     sorted[Len(sorted)])
         ELSE Append(sorted, x)

RECURSIVE SortRanked(_)
SortRanked(list) ==
    IF list = <<>> THEN <<>>
    ELSE InsertRanked(SortRanked(SubSeq(list, 1, Len(list) - 1)), list[Len(list)])

\* The candidates scored, those with matchScore > 0 sorted, the first 20.
rankedMentors(currentUserId, skills, profiles) ==
    LET docs == [i \in DOMAIN profiles |-> [userId |-> i,
                                            skillsHave |-> profiles[i].skillsHave]]
        others == SelectSeq(docs, LAMBDA profile : profile.userId # currentUserId)
        mentors == SelectSeq(others, LAMBDA profile : profile.skillsHave # <<>>)
        mentorsWithScores ==
            [i \in DOMAIN mentors |->
                LET match == calculateLocalMatchScore(skills, mentors[i].skillsHave) IN
                [userId |-> mentors[i].userId,
                 matchScore |-> match.score,
                 matchedSkills |-> match.matchedSkills]]
        sorted == SortRanked(SelectSeq(mentorsWithScores,
                                       LAMBDA m : m.matchScore > 0))
    IN SubSeq(sorted, 1, IF Len(sorted) < MaxResults THEN Len(sorted) ELSE MaxResults)

\* The result, and the skill list the call matched against.
searchMentors(currentUserId, searchQuery, searchSkills, profiles) ==
    IF currentUserId \notin DOMAIN profiles
    THEN [mentors |-> <<>>, skillsToMatch |-> <<>>]
    ELSE LET skills == skillsToMatch(profiles[currentUserId], searchQuery,
                                     searchSkills) IN
         [mentors |-> IF skills = <<>> THEN <<>>
                      ELSE rankedMentors(currentUserId, skills, profiles),
          skillsToMatch |-> skills]

(***************************************************************************)
(* The matching functions applied to bounded inputs.                       *)
(***************************************************************************)
Alphabet == {"a", "B", " ", "-"}

\* Every string over the alphabet of at most n characters.
Strings(n) == UNION {[1..k -> Alphabet] : k \in 0..n}

Python == <<"p", "y", "t", "h", "o", "n">>
Guitar == <<"g", "u", "i", "t", "a", "r">>
Programming == <<"p", "r", "o", "g", "r", "a", "m", "m", "i", "n", "g">>
PythonProgramming ==
    <<"P", "y", "t", "h", "o", "n", " ", "P", "r", "o", "g", "r", "a", "m",
      "m", "i", "n", "g">>
Photography == <<"P", "h", "o", "t", "o", "g", "r", "a", "p", "h", "y">>
Bangs == <<"!", "!">>

SkillPool == {Python, Guitar, PythonProgramming, Photography, Bangs}

\* Every list of at most n skills of the pool.
SkillLists(n) == UNION {[1..k -> SkillPool] : k \in 0..n}

\* A long wanted list: k times python, then guitar up to the length n.
LongShares == {0, 1, 23} \X {40, 200, 201}

LongWants(k, n) == [i \in 1..n |-> IF i <= k THEN Python ELSE Guitar]

\* Queries: '', ' ', ',', 'python', 'guitar;python', 'python, programming'.
GuitarThenPython == Guitar \o <<";">> \o Python
PythonAndProgramming == Python \o <<",", " ">> \o Programming

Queries == {<<>>, <<" ">>, <<",">>, Python, GuitarThenPython, PythonAndProgramming}

Skills == {Undefined, Given(<<>>), Given(<<Guitar>>)}

\* The profiles a store holds: what the user offers and wants to learn.
ProfileKinds ==
    [skillsHave : {<<>>, <<PythonProgramming>>, <<Python, Programming>>},
     skillsToLearn : {<<>>, <<Python, Programming>>}]

\* Every store of at most n profiles.
Stores(n) == UNION {[1..k -> ProfileKinds] : k \in 0..n}

\* A store of n profiles, all but every fourth of them mentors for python
\* or programming: more candidates than results.
LongStores == {21, 22}

LongStore(n) ==
    [i \in 1..n |->
        [skillsHave |-> CASE i % 4 = 0 -> <<Guitar>>
                          [] i % 4 = 1 -> <<PythonProgramming>>
                          [] i % 4 = 2 -> <<Python, Programming>>
                          [] i % 4 = 3 -> <<Python>>,
         skillsToLearn |-> <<Python, Programming, Guitar>>]]

SearchCalls ==
    {[op |-> "searchMentors", currentUserId |-> userId, searchQuery |-> q,
      searchSkills |-> skills, profiles |-> profiles] :
        userId \in 1..(MaxProfiles + 1), q \in Queries, skills \in Skills,
        profiles \in Stores(MaxProfiles)}
    \cup
    {[op |-> "searchMentors", currentUserId |-> 1, searchQuery |-> q,
      searchSkills |-> Undefined, profiles |-> LongStore(n)] :
        q \in {<<>>, PythonAndProgramming}, n \in LongStores}

NormalizeCalls ==
    {[op |-> "normalizeSkill", skill |-> str] : str \in Strings(MaxSkillLen)}

ScoreCalls ==
    {[op |-> "calculateLocalMatchScore", learnerWants |-> wants, mentorHas |-> has] :
        wants \in SkillLists(MaxListLen), has \in SkillLists(MaxListLen)}
    \cup
    {[op |-> "calculateLocalMatchScore", learnerWants |-> LongWants(kn[1], kn[2]),
      mentorHas |-> <<PythonProgramming>>] :
        kn \in LongShares}

\* skillsMatch(skill1, skill2): pairs of short strings and of skills.
MatchCalls ==
    {[op |-> "skillsMatch", skill1 |-> a, skill2 |-> b] :
        a \in Strings(MaxSkillLen), b \in Strings(MaxSkillLen - 1)}
    \cup
    {[op |-> "skillsMatch", skill1 |-> a, skill2 |-> b] :
        a \in SkillPool \cup {Programming}, b \in SkillPool \cup {Programming}}

ApplyNormalizeSkill ==
    /\ applied.op = "normalizeSkill"
    /\ ~returned.done
    /\ returned' = [done |-> TRUE, value |-> normalizeSkill(applied.skill)]
    /\ UNCHANGED <<server, client, applied>>

ApplySkillsMatch ==
    /\ applied.op = "skillsMatch"
    /\ ~returned.done
    /\ returned' = [done |-> TRUE,
                    value |-> skillsMatch(applied.skill1, applied.skill2)]
    /\ UNCHANGED <<server, client, applied>>

ApplyCalculateLocalMatchScore ==
    /\ applied.op = "calculateLocalMatchScore"
    /\ ~returned.done
    /\ returned' = [done |-> TRUE,
                    value |-> calculateLocalMatchScore(applied.learnerWants,
                                                       applied.mentorHas)]
    /\ UNCHANGED <<server, client, applied>>

\* The store reads of searchMentors: getProfile's getDoc and, when the
\* profile exists and there are skills to match, the getDocs of all profiles.
StoreReads ==
    {"getProfile"} \cup
    (IF /\ applied.currentUserId \in DOMAIN applied.profiles
        /\ skillsToMatch(applied.profiles[applied.currentUserId],
                         applied.searchQuery, applied.searchSkills) # <<>>
     THEN {"getDocs"} ELSE {})

\* catch (error) { console.error(...); return []; }
Caught(caught) ==
    [done |-> TRUE, caught |-> caught, outcome |-> "returned",
     value |-> [mentors |-> <<>>, skillsToMatch |-> <<>>]]

\* A store read of searchMentors rejects: the rejection is thrown at the
\* await inside the try block, and the catch block handles it.
SearchMentorsStoreFailure ==
    /\ applied.op = "searchMentors"
    /\ ~returned.done
    /\ \E read \in StoreReads : returned' = Caught(read)
    /\ UNCHANGED <<server, client, applied>>

\* searchMentors with both store reads succeeding.
ApplySearchMentors ==
    /\ applied.op = "searchMentors"
    /\ ~returned.done
    /\ returned' = [done |-> TRUE, caught |-> "none", outcome |-> "returned",
                    value |-> searchMentors(applied.currentUserId,
                                            applied.searchQuery,
                                            applied.searchSkills,
                                            applied.profiles)]
    /\ UNCHANGED <<server, client, applied>>

InitMatch ==
    /\ mentorRequests = Empty
    /\ chatRooms = Empty
    /\ createdFor = Empty
    /\ messages = Empty
    /\ chatReports = Empty
    /\ now = 0
    /\ calls = 0
    /\ InitLocals
    /\ InitClient
    /\ applied \in NormalizeCalls \cup MatchCalls \cup ScoreCalls \cup SearchCalls
    /\ returned = NotYet

NextMatch ==
    \/ ApplyNormalizeSkill
    \/ ApplySkillsMatch
    \/ ApplyCalculateLocalMatchScore
    \/ ApplySearchMentors
    \/ SearchMentorsStoreFailure

SpecMatch == InitMatch /\ [][NextMatch]_vars

(***************************************************************************)
(* Properties of the request lifecycle (under SpecRequests).               *)
(***************************************************************************)
ActiveRequests(s, r) ==
    {id \in DOMAIN mentorRequests :
        /\ mentorRequests[id].senderId = s
        /\ mentorRequests[id].receiverId = r
        /\ mentorRequests[id].status \in {"pending", "accepted"}}

ChannelsOf(requestId) ==
    {c \in DOMAIN chatRooms : createdFor[c] = requestId}

\* C1: in every reachable state, for each ordered pair (S, R) at most one
\* request with senderId = S and receiverId = R is pending or accepted.
C1_AtMostOneActiveRequest ==
    \A s \in Users, r \in Users : Cardinality(ActiveRequests(s, r)) <= 1

\* C2: a request whose status is accepted or rejected never changes status
\* again, whatever respond calls follow.
C2_TerminalStatusIsFinal ==
    [][\A id \in DOMAIN mentorRequests :
          mentorRequests[id].status \in {"accepted", "rejected"}
              => mentorRequests'[id].status = mentorRequests[id].status]_vars

\* C3: over any sequence of respond calls, repeated or concurrent, at most
\* one chat room is ever created for a given request.
C3_AtMostOneChannelPerRequest ==
    \A id \in DOMAIN mentorRequests : Cardinality(ChannelsOf(id)) <= 1

\* C4: a respond call that accepts and completes successfully has added
\* exactly one chat room, in its last step, whose participant set is exactly
\* {sender, receiver} of the request and whose lastMessageAt is set (to the
\* room's creation time); every other step of a respond call, and so every
\* respond call that rejects, adds no chat room.
C4_AcceptCreatesOneChannel ==
    [][\A p \in Callers :
          (args[p].op = "respond" /\ pc[p] # "idle" /\ pc'[p] # pc[p]) =>
              LET added == DOMAIN chatRooms' \ DOMAIN chatRooms IN
              IF pc'[p] = "idle" /\ result'[p] = "ok" /\ args[p].accept
              THEN /\ Cardinality(added) = 1
                   /\ \A c \in added :
                        /\ Range(chatRooms'[c].participants) =
                              {mentorRequests'[args[p].requestId].senderId,
                               mentorRequests'[args[p].requestId].receiverId}
                        /\ chatRooms'[c].lastMessageAt # NoTime
                        /\ chatRooms'[c].lastMessageAt = chatRooms'[c].createdAt
              ELSE added = {}]_vars

\* A respond(requestId, true) has completed and its request has one channel.
C4_Witness ==
    \E p \in Callers :
        /\ args[p].op = "respond" /\ args[p].accept
        /\ pc[p] = "idle" /\ result[p] = "ok"
        /\ docRef[p] \in DOMAIN chatRooms
        /\ mentorRequests[args[p].requestId].senderId = "A"
        /\ mentorRequests[args[p].requestId].receiverId = "B"
        /\ Range(chatRooms[docRef[p]].participants) = {"A", "B"}

\* C6: a create whose message the moderation service reports unsafe, or on
\* which the moderation service fails, ends in an error without having added
\* a request; a create with a non-empty message reaches the duplicate query
\* and the write only with verdict safe; no stored request carries an unsafe
\* message.
C6_CreateBlocksOnModeration ==
    /\ \A p \in Callers : args[p].op = "create" =>
          /\ moderation[p] = "unsafe" =>
                pc[p] = "idle" /\ result[p] = "ContentRejected" /\ docRef[p] = NoDoc
          /\ moderation[p] = "error" =>
                pc[p] = "idle" /\ result[p] = "ModerationError" /\ docRef[p] = NoDoc
          /\ (args[p].message # NoText /\ (pc[p] \in {"create_query", "create_add"}
                                            \/ docRef[p] # NoDoc))
                => moderation[p] = "safe"
    /\ \A id \in DOMAIN mentorRequests : mentorRequests[id].message # UnsafeText

\* One create was rejected as unsafe and one failed on a moderation error,
\* while a request is stored.
C6_Witness ==
    /\ \E p \in Callers : /\ args[p].op = "create"
                          /\ args[p].message = UnsafeText
                          /\ moderation[p] = "unsafe"
                          /\ result[p] = "ContentRejected"
    /\ \E p \in Callers : /\ args[p].op = "create"
                          /\ args[p].message = SafeText
                          /\ moderation[p] = "error"
                          /\ result[p] = "ModerationError"
    /\ mentorRequests # Empty

\* C10: a create(A, B) whose duplicate query runs while a request from A to
\* B is pending fails with DuplicateRequestError (and so adds no request).
C10_PendingDuplicateRejected ==
    [][\A p \in Callers :
          (/\ pc[p] = "create_query"
           /\ pc'[p] # "create_query"
           /\ \E id \in existingDocs(args[p].fromUserId, args[p].toUserId) :
                 mentorRequests[id].status = "pending")
          => (pc'[p] = "idle" /\ result'[p] = "DuplicateRequestError")]_vars

\* C11: the duplicate check is direction-sensitive.  A create(B, A) whose
\* duplicate query runs while a request from A to B is pending or accepted
\* and no request from B to A is pending or accepted passes the check, and
\* the write that follows the check succeeds and adds exactly one request,
\* pending, with senderId = B and receiverId = A.
C11_ReverseDirectionAllowed ==
    [][\A p \in Callers : args[p].op = "create" =>
          /\ (/\ pc[p] = "create_query"
              /\ pc'[p] # "create_query"
              /\ ActiveRequests(args[p].toUserId, args[p].fromUserId) # {}
              /\ ActiveRequests(args[p].fromUserId, args[p].toUserId) = {})
             => pc'[p] = "create_add"
          /\ (pc[p] = "create_add" /\ pc'[p] # "create_add") =>
                /\ pc'[p] = "idle" /\ result'[p] = "ok"
                /\ DOMAIN mentorRequests' = DOMAIN mentorRequests \cup {docRef'[p]}
                /\ docRef'[p] \notin DOMAIN mentorRequests
                /\ mentorRequests'[docRef'[p]].senderId = args[p].fromUserId
                /\ mentorRequests'[docRef'[p]].receiverId = args[p].toUserId
                /\ mentorRequests'[docRef'[p]].status = "pending"]_vars

\* A create(B, A) has succeeded while an older request from A to B was
\* accepted: both are stored, the new one pending.
C11_Witness ==
    \E p \in Callers :
        /\ args[p].op = "create" /\ pc[p] = "idle" /\ result[p] = "ok"
        /\ args[p].fromUserId = "B" /\ args[p].toUserId = "A"
        /\ docRef[p] \in DOMAIN mentorRequests
        /\ mentorRequests[docRef[p]].status = "pending"
        /\ mentorRequests[docRef[p]].senderId = "B"
        /\ \E id \in ActiveRequests("A", "B") :
              /\ mentorRequests[id].status = "accepted"
              /\ mentorRequests[id].respondedAt < mentorRequests[docRef[p]].createdAt
        /\ Cardinality(ActiveRequests("B", "A")) = 1

(***************************************************************************)
(* Properties of the channel and of the reports (under SpecChat).          *)
(***************************************************************************)

\* C5: a send whose text the moderation service reports unsafe fails with
\* ContentRejected: it appends no message and does not complete normally.
C5_UnsafeSendRejected ==
    \A p \in Callers :
        (args[p].op = "send" /\ moderation[p] = "unsafe") =>
            /\ docRef[p] = NoDoc
            /\ pc[p] = "idle" => result[p] = "ContentRejected"

\* C7: a send on which the moderation service fails never ends in an error,
\* and once it has completed its message is stored and the channel's
\* lastMessageAt is later than the message's createdAt.
C7_SendFailsOpen ==
    \A p \in Callers :
        (args[p].op = "send" /\ moderation[p] = "error") =>
            /\ result[p] \in {"none", "ok"}
            /\ pc[p] = "idle" =>
                  /\ result[p] = "ok"
                  /\ docRef[p] \in DOMAIN messages
                  /\ messages[docRef[p]].chatRoomId = args[p].chatRoomId
                  /\ messages[docRef[p]].senderId = args[p].senderId
                  /\ messages[docRef[p]].text = args[p].text
                  /\ chatRooms[args[p].chatRoomId].lastMessageAt
                        > messages[docRef[p]].createdAt

\* A send has completed although its moderation call failed.
C7_Witness ==
    \E p \in Callers :
        /\ args[p].op = "send" /\ moderation[p] = "error"
        /\ pc[p] = "idle" /\ result[p] = "ok"
        /\ docRef[p] \in DOMAIN messages

\* The messages of the report's channel sent after the report was stored.
SentAfter(r) ==
    {m \in DOMAIN messages :
        /\ messages[m].chatRoomId = chatReports[r].chatRoomId
        /\ messages[m].createdAt > chatReports[r].createdAt}

\* C8: no step changes the messages (or participants) stored in a report,
\* and after every step each message sent on the channel after the capture
\* is in getMessages of the channel and is not in the report.
C8_ReportIsFrozen ==
    [][/\ \A r \in DOMAIN chatReports :
            /\ chatReports'[r].messages = chatReports[r].messages
            /\ chatReports'[r].participants = chatReports[r].participants
       /\ \A r \in DOMAIN chatReports' :
            \A m \in SentAfter(r)' :
                /\ m \in Range(getMessages(chatReports[r].chatRoomId))'
                /\ CopyOf(m)' \notin Range(chatReports[r].messages)']_vars

\* A report holds a captured message and a later message is on the channel.
C8_Witness ==
    \E r \in DOMAIN chatReports :
        /\ Len(chatReports[r].messages) >= 1
        /\ SentAfter(r) # {}

C15_CaptureStoresSortedSnapshot ==
    [][\A p \in Callers :
          /\ (pc[p] = "report_messages" /\ pc'[p] = "report_add") =>
                \E list \in {captured'[p].messages},
                   room \in {RoomMessages(args[p].chatRoomId)} :
                    /\ Range(list) = {CopyOf(m) : m \in room}
                    /\ Len(list) = Cardinality(room)
                    /\ \A i, j \in DOMAIN list :
                          i < j => getTime(list[i].createdAt)
                                      <= getTime(list[j].createdAt)
          /\ (pc[p] = "report_add" /\ pc'[p] = "idle") =>
                /\ result'[p] = "ok"
                /\ DOMAIN chatReports' = DOMAIN chatReports \cup {docRef'[p]}
                /\ docRef'[p] \notin DOMAIN chatReports
                /\ chatReports'[docRef'[p]].status = "pending"
                /\ chatReports'[docRef'[p]].messages = captured[p].messages
                /\ chatReports'[docRef'[p]].participants
                      = chatRooms[args[p].chatRoomId].participants
                /\ chatReports'[docRef'[p]].chatRoomId = args[p].chatRoomId]_vars

\* A report of a channel with two messages is stored: pending, both
\* participants, the two copies in the order they were sent.
C15_Witness ==
    \E r \in DOMAIN chatReports :
        /\ chatReports[r].status = "pending"
        /\ chatReports[r].participants = <<"A", "B">>
        /\ Len(chatReports[r].messages) = 2
        /\ chatReports[r].messages = <<CopyOf(1), CopyOf(2)>>
        /\ getTime(chatReports[r].messages[1].createdAt)
              < getTime(chatReports[r].messages[2].createdAt)

(***************************************************************************)
(* Properties of the message subscription (under SpecChatScreen).          *)
(***************************************************************************)
AscendingByCreatedAt(list) ==
    \A i, j \in DOMAIN list :
        i < j => messages[list[i]].createdAt <= messages[list[j]].createdAt

InSendOrder(list) ==
    \A i, j \in DOMAIN list : i < j => list[i] < list[j]

\* C12: with the sends made one after the other (message k is the k-th one
\* sent), every snapshot a message listener's callback is called with, and
\* every getMessages result, lists all the messages stored for the channel
\* at that moment, in the order they were sent and ascending by createdAt:
\* after the third send, m1, m2, m3 in this order.
C12_SnapshotsInSendOrder ==
    [][/\ \A l \in DOMAIN listeners :
            (/\ listeners[l].query.collection = "messages"
             /\ listeners[l].status = "due"
             /\ listeners'[l].status = "idle"
             /\ chatScreen.mounted)
            => \E snapshot \in {chatScreen'.messages},
                  c \in {listeners[l].query.chatRoomId} :
                   /\ Range(snapshot) = RoomMessages(c)'
                   /\ Len(snapshot) = Cardinality(RoomMessages(c)')
                   /\ AscendingByCreatedAt(snapshot)'
                   /\ InSendOrder(snapshot)
       /\ \A c \in DOMAIN chatRooms : \E list \in {getMessages(c)'} :
            /\ Range(list) = RoomMessages(c)'
            /\ Len(list) = Cardinality(RoomMessages(c)')
            /\ AscendingByCreatedAt(list)'
            /\ InSendOrder(list)]_vars

\* Three sends have completed and the screen has been called with the
\* snapshot [m1, m2, m3].
C12_Witness ==
    /\ calls = 3
    /\ \A p \in Callers : pc[p] = "idle"
    /\ chatScreen.mounted
    /\ chatScreen.messages = <<1, 2, 3>>
    /\ getMessages(1) = <<1, 2, 3>>
    /\ messages[1].createdAt < messages[2].createdAt
    /\ messages[2].createdAt < messages[3].createdAt

MessageListeners(registry) ==
    {l \in Registered(registry) : registry[l].query.collection = "messages"}

\* C13: a listener whose unsubscribe function has been called is never
\* called again (it stays removed: it is never owed a snapshot, whatever is
\* sent), and at every moment at most one message listener is registered:
\* the one the mounted ChatScreen's last effect opened, on the screen's
\* chatId; none when no screen is mounted.
C13_UnsubscribeEndsDelivery ==
    [][/\ \A l \in DOMAIN listeners :
            listeners[l].status = "removed" => listeners'[l].status = "removed"
       /\ Cardinality(MessageListeners(listeners')) <= 1
       /\ \A l \in MessageListeners(listeners') :
            /\ chatScreen'.mounted
            /\ chatScreen'.unsubscribe = l
            /\ listeners'[l].query.chatRoomId = chatScreen'.chatId]_vars

\* The screen has moved from chat 1 to chat 2: the first listener is
\* removed, the second is registered, and a message has been stored on
\* chat 1 that the screen was never called with.
C13_Witness ==
    /\ chatScreen.mounted /\ chatScreen.chatId = 2
    /\ 2 \in DOMAIN listeners
    /\ listeners[1].status = "removed" /\ listeners[1].query.chatRoomId = 1
    /\ listeners[2].status = "idle" /\ chatScreen.unsubscribe = 2
    /\ chatScreen.messages = <<>>
    /\ RoomMessages(1) # {}

(***************************************************************************)
(* Properties of the requests tab (under SpecActivity).                    *)
(***************************************************************************)
RequestListeners(registry) ==
    {l \in Registered(registry) : registry[l].query.collection = "mentorRequests"}

\* C14: the requests tab leaks no listener: once the tab has been left or
\* the screen unmounted, no mentor-request listener the screen opened is
\* still registered, and while the tab is open the registered listeners are
\* at most the two subscriptions (received, sent), however many snapshots
\* have been delivered.
C14_NoLeakedRequestListeners ==
    /\ (~activityScreen.mounted \/ activityScreen.activeTab # "requests")
          => RequestListeners(listeners) = {}
    /\ Cardinality(RequestListeners(listeners)) <= 2

(***************************************************************************)
(* Properties of the matching functions (under SpecMatch).                 *)
(***************************************************************************)
Scored == applied.op = "calculateLocalMatchScore" /\ returned.done

\* C16 as stated: for every wanted and has list the score is an integer in
\* 0..100 and it is 0 exactly when matchedSkills is empty.
C16_ScoreZeroIffNoMatch ==
    Scored =>
        /\ returned.value.score \in 0..100
        /\ returned.value.score = 0 <=> returned.value.matchedSkills = <<>>

\* C16, amended: for every wanted and has list the score is an integer in
\* 0..100 and it is 0 when matchedSkills is empty; when the wanted list has
\* at most 200 entries the score is 0 only when matchedSkills is empty.
C16_ScoreZeroIffNoMatchUpTo200 ==
    Scored =>
        /\ returned.value.score \in 0..100
        /\ returned.value.matchedSkills = <<>> => returned.value.score = 0
        /\ (Len(applied.learnerWants) <= 200 /\ returned.value.score = 0)
              => returned.value.matchedSkills = <<>>

\* One wanted skill of 200 matches: the score is 1.
C16_Witness ==
    /\ Scored
    /\ Len(applied.learnerWants) = 200
    /\ returned.value.matchedSkills = <<PythonProgramming>>
    /\ returned.value.score = 1

\* C17: normalizing a normalized skill changes nothing, for every string,
\* also one with punctuation next to spaces at its ends.
C17_NormalizeIdempotent ==
    (applied.op = "normalizeSkill" /\ returned.done)
        => normalizeSkill(returned.value) = returned.value

\* The wanted skills that match some entry of has.
MatchedWants(wants, has) ==
    {i \in DOMAIN wants : \E j \in DOMAIN has : skillsMatch(wants[i], has[j])}

\* The first entry of has that matches the i-th wanted skill.
FirstMatch(wants, has, i) ==
    has[CHOOSE j \in DOMAIN has :
            /\ skillsMatch(wants[i], has[j])
            /\ \A k \in 1..(j - 1) : ~skillsMatch(wants[i], has[k])]

\* C18: the score is round(100 * matchedCount / |wanted|), matchedCount the
\* number of wanted skills that match an entry of has; matchedSkills holds,
\* without duplicates, the first matching entry of has of each of them; an
\* empty wanted or has list gives score 0 and no matchedSkills; wanted
\* [python, guitar] and has [Python Programming, Photography] give score 50
\* and matchedSkills [Python Programming].
C18_ScoreCountsFirstMatches ==
    Scored =>
        \E wants \in {applied.learnerWants}, has \in {applied.mentorHas},
           out \in {returned.value} :
            /\ (wants = <<>> \/ has = <<>>)
                  => out = [score |-> 0, matchedSkills |-> <<>>]
            /\ wants # <<>> =>
                  out.score = RoundedShare(Cardinality(MatchedWants(wants, has)),
                                           Len(wants))
            /\ Range(out.matchedSkills) =
                  {FirstMatch(wants, has, i) : i \in MatchedWants(wants, has)}
            /\ \A i, j \in DOMAIN out.matchedSkills :
                  i # j => out.matchedSkills[i] # out.matchedSkills[j]
            /\ (wants = <<Python, Guitar>> /\ has = <<PythonProgramming, Photography>>)
                  => out = [score |-> 50, matchedSkills |-> <<PythonProgramming>>]

\* A search has returned, both of its store reads having succeeded.
Searched ==
    /\ applied.op = "searchMentors"
    /\ returned.done
    /\ returned.caught = "none"

\* C19: a search returns only candidates with a score above 0 and a
\* non-empty skillsHave, never the searcher's own profile, at most 20 of
\* them, ordered by score descending, equal scores by the number of
\* matchedSkills descending, and candidates equal in both in the order the
\* store enumerates them (the order of the user ids).
C19_RankedResults ==
    Searched =>
        \E out \in {returned.value.mentors} :
            /\ Len(out) <= 20
            /\ \A i \in DOMAIN out :
                  /\ out[i].matchScore > 0
                  /\ out[i].userId # applied.currentUserId
                  /\ out[i].userId \in DOMAIN applied.profiles
                  /\ applied.profiles[out[i].userId].skillsHave # <<>>
            /\ \A i, j \in DOMAIN out : i < j =>
                  \/ out[i].matchScore > out[j].matchScore
                  \/ /\ out[i].matchScore = out[j].matchScore
                     /\ Len(out[i].matchedSkills) > Len(out[j].matchedSkills)
                  \/ /\ out[i].matchScore = out[j].matchScore
                     /\ Len(out[i].matchedSkills) = Len(out[j].matchedSkills)
                     /\ out[i].userId < out[j].userId

\* A store with more than 20 candidates: 20 are returned, the searcher not
\* among them, with a step down in score, a step down in the number of
\* matched skills at equal score, and a tie in both left in store order.
C19_Witness ==
    /\ Searched
    /\ Len(applied.profiles) = 22
    /\ applied.profiles[applied.currentUserId].skillsHave # <<>>
    /\ \E out \in {returned.value.mentors} :
          /\ Len(out) = 20
          /\ \E i \in 1..19 : out[i].matchScore > out[i + 1].matchScore
          /\ \E i \in 1..19 :
                /\ out[i].matchScore = out[i + 1].matchScore
                /\ Len(out[i].matchedSkills) > Len(out[i + 1].matchedSkills)
          /\ \E i \in 1..19 :
                /\ out[i].matchScore = out[i + 1].matchScore
                /\ Len(out[i].matchedSkills) = Len(out[i + 1].matchedSkills)
                /\ out[i].userId < out[i + 1].userId

\* The skills the searcher's call falls back on: the searchSkills argument
\* or, when it is not passed, the skillsToLearn of the searcher's profile.
profileWantedSkills ==
    IF applied.searchSkills.given THEN applied.searchSkills.list
    ELSE applied.profiles[applied.currentUserId].skillsToLearn

HasProfile == applied.currentUserId \in DOMAIN applied.profiles

\* C20 as stated: when the query is non-empty the list parsed from it is
\* matched against instead of profileWantedSkills, otherwise
\* profileWantedSkills; the search returns nothing whenever that list is
\* empty, also for a non-empty query that yields no skill.
C20_QueryReplacesProfileSkills ==
    (Searched /\ HasProfile) =>
        /\ returned.value.skillsToMatch =
              IF applied.searchQuery # <<>>
              THEN parsedSkills(applied.searchQuery)
              ELSE profileWantedSkills
        /\ (applied.searchQuery # <<>> /\ parsedSkills(applied.searchQuery) = <<>>)
              => returned.value.mentors = <<>>

\* C20, amended: when the query yields at least one skill, the list parsed
\* from it is matched against instead of profileWantedSkills; otherwise (no
\* query, a blank one, or one that yields no skill) profileWantedSkills is;
\* the search returns nothing whenever the list matched against is empty.
C20_ParsedSkillsReplaceProfileSkills ==
    (Searched /\ HasProfile) =>
        /\ returned.value.skillsToMatch =
              IF parsedSkills(applied.searchQuery) # <<>>
              THEN parsedSkills(applied.searchQuery)
              ELSE profileWantedSkills
        /\ returned.value.skillsToMatch = <<>> => returned.value.mentors = <<>>

\* The query ',' yields no skill: the search matched against the profile's
\* skillsToLearn and found a mentor.
C20_Witness ==
    /\ Searched /\ HasProfile
    /\ applied.searchQuery = <<",">>
    /\ ~applied.searchSkills.given
    /\ returned.value.skillsToMatch = <<Python, Programming>>
    /\ returned.value.mentors # <<>>

Matched == applied.op = "skillsMatch" /\ returned.done

\* C21: skillsMatch is symmetric: skillsMatch(a, b) returns what
\* skillsMatch(b, a) returns, for every pair of skill strings.
C21_SkillsMatchSymmetric ==
    Matched => returned.value = skillsMatch(applied.skill2, applied.skill1)

\* A skill is found inside a longer one it is not equal to, asked with the
\* shorter skill first.
C21_Witness ==
    /\ Matched
    /\ returned.value
    /\ applied.skill1 = Python
    /\ applied.skill2 = PythonProgramming

\* C22: a store failure during a core operation reaches the caller as a
\* failure: a search one of whose store reads failed throws, it does not
\* return a normal result.
C22_SearchPropagatesStoreFailure ==
    (applied.op = "searchMentors" /\ returned.done /\ returned.caught # "none")
        => returned.outcome = "threw"

\* The collection of requests with other message contents.
WithMessages(requests, contents) ==
    [id \in DOMAIN requests |-> [requests[id] EXCEPT !.message = contents[id]]]

\* C23: the admin listings hold metadata only.  The request listing has no
\* message field and is the same for every store that differs from this
\* one in the requests' messages only; the chat room listing is the rooms'
\* id, userIds, createdAt, lastMessageAt and a messageCount of 0, whatever
\* the messages of the rooms say.
C23_AdminListingsMetadataOnly ==
    [][/\ LoadMentorRequestsForAdmin =>
             \E listing \in {returned'.value} :
                 /\ \A i \in DOMAIN listing :
                        DOMAIN listing[i] = {"id", "senderId", "receiverId",
                                             "status", "createdAt", "respondedAt"}
                 /\ \A contents \in [DOMAIN mentorRequests -> Texts \cup {NoText}] :
                        listing = getAllMentorRequestsForAdmin(
                                      WithMessages(mentorRequests, contents))
       /\ LoadChatRoomsForAdmin =>
             \E listing \in {returned'.value} :
                 /\ Len(listing) = Cardinality(DOMAIN chatRooms)
                 /\ \A i \in DOMAIN listing :
                        /\ listing[i].id \in DOMAIN chatRooms
                        /\ listing[i] =
                              [id |-> listing[i].id,
                               userIds |-> chatRooms[listing[i].id].userIds,
                               createdAt |-> chatRooms[listing[i].id].createdAt,
                               lastMessageAt |->
                                   chatRooms[listing[i].id].lastMessageAt,
                               messageCount |-> 0]]_vars

\* The request listing as loaded from a store that holds a request with a
\* message and a chat room with a message in it.
C23_Witness ==
    /\ returned.done
    /\ applied.op = "getAllMentorRequestsForAdmin"
    /\ returned.value = getAllMentorRequestsForAdmin(mentorRequests)
    /\ returned.value # <<>>
    /\ \E id \in DOMAIN mentorRequests : mentorRequests[id].message # NoText
    /\ \E m \in DOMAIN messages : messages[m].chatRoomId \in DOMAIN chatRooms

\* C24: a create(A, B) whose duplicate query runs while some request from A
\* to B is pending or accepted fails with DuplicateRequestError, however
\* many rejected requests from A to B there are and whichever of the
\* matching documents the store returns first.
C24_ActiveDuplicateRejected ==
    [][\A p \in Callers :
          (/\ pc[p] = "create_query"
           /\ pc'[p] # "create_query"
           /\ \E id \in existingDocs(args[p].fromUserId, args[p].toUserId) :
                 mentorRequests[id].status \in {"pending", "accepted"})
          => (/\ pc'[p] = "idle"
              /\ result'[p] = "DuplicateRequestError"
              /\ mentorRequests' = mentorRequests)]_vars

\* C25: an accept is two independent writes.  The step of a
\* respond(requestId, true) that marks the request accepted adds no chat
\* room and leaves the call suspended before its addDoc, so that the store
\* can be read with the request accepted and its channel missing; when the
\* call then completes successfully, a chat room created for the request
\* exists.
C25_AcceptIsTwoWrites ==
    [][\A p \in Callers : (args[p].op = "respond" /\ args[p].accept) =>
          \E id \in {args[p].requestId} :
              /\ (pc[p] = "respond_update" /\ pc'[p] # pc[p]) =>
                    /\ pc'[p] = "respond_add"
                    /\ mentorRequests'[id].status = "accepted"
                    /\ chatRooms' = chatRooms
              /\ (pc[p] = "respond_add" /\ pc'[p] = "idle" /\ result'[p] = "ok") =>
                    ChannelsOf(id)' # {}]_vars

\* The intermediate state: a request is accepted, no chat room has been
\* created for it, the accepting call is suspended before its addDoc, and
\* another caller is in the middle of a call of its own.
C25_Witness ==
    \E p \in Callers, q \in Callers :
        /\ p # q
        /\ args[p].op = "respond" /\ args[p].accept
        /\ pc[p] = "respond_add"
        /\ mentorRequests[args[p].requestId].status = "accepted"
        /\ ChannelsOf(args[p].requestId) = {}
        /\ pc[q] \in {"create_query", "respond_get"}

\* C26: when the addDoc of the chat room fails in a respond(requestId, true)
\* whose status update has succeeded, the call ends there with the store's
\* error: the request is left accepted, no chat room is added, nothing the
\* call wrote is undone and the call makes no further attempt.
C26_FailedAcceptLeavesRequestAccepted ==
    [][\A p \in Callers :
          (pc[p] = "respond_add" /\ pc'[p] # pc[p] /\ chatRooms' = chatRooms) =>
              /\ pc'[p] = "idle"
              /\ result'[p] = "StoreError"
              /\ mentorRequests' = mentorRequests
              /\ mentorRequests'[args[p].requestId].status = "accepted"]_vars

\* An accept has failed in its addDoc: its request is accepted and no chat
\* room was created for it.
C26_Witness ==
    \E p \in Callers :
        /\ args[p].op = "respond" /\ args[p].accept
        /\ pc[p] = "idle" /\ result[p] = "StoreError"
        /\ requestDoc[p].exists
        /\ mentorRequests[args[p].requestId].status = "accepted"
        /\ ChannelsOf(args[p].requestId) = {}

IsPrefix(short, long) ==
    /\ Len(short) <= Len(long)
    /\ SubSeq(long, 1, Len(short)) = short

SendInProgress(chatRoomId) ==
    \E p \in Callers :
        /\ args[p].op = "send"
        /\ args[p].chatRoomId = chatRoomId
        /\ pc[p] # "idle"

\* C28: whenever no send on a channel is in progress (every send started
\* on it has completed, successfully), the channel's lastMessageAt is not
\* earlier than the createdAt of any of its messages, however the sends of
\* the callers interleaved.
C28_LastMessageAtCoversMessages ==
    \A c \in DOMAIN chatRooms :
        (/\ ~SendInProgress(c)
         /\ \A p \in Callers : args[p].op = "send" => result[p] = "ok")
        => \A m \in RoomMessages(c) :
               chatRooms[c].lastMessageAt >= messages[m].createdAt

\* Two sends on one channel have interleaved (their messages were added
\* one right after the other, before either call updated lastMessageAt)
\* and both have completed.
C28_Witness ==
    /\ \A p \in Callers : args[p].op = "send" /\ pc[p] = "idle" /\ result[p] = "ok"
    /\ args["c1"].chatRoomId = args["c2"].chatRoomId
    /\ messages[docRef["c1"]].createdAt + 1 = messages[docRef["c2"]].createdAt
    /\ chatRooms[args["c1"].chatRoomId].lastMessageAt >
          messages[docRef["c2"]].createdAt

\* No call is in progress and no listener is owed a snapshot: if the store
\* does not change any more, no callback will run.
Quiescent ==
    /\ \A p \in Callers : pc[p] = "idle"
    /\ \A l \in DOMAIN listeners : listeners[l].status # "due"

\* What the two queries of the requests tab return now.
LatestRequests ==
    [received |-> NewestFirst(RequestsWhere("receiverId", ActivityUser)),
     sent |-> NewestFirst(RequestsWhere("senderId", ActivityUser))]

\* C29: on the requests tab, once every snapshot owed has been delivered
\* and no listen has failed, the lists the screen displays are the latest
\* results of the received and of the sent query: no callback of an
\* earlier sent listener has put back the received list it captured.
C29_DisplayedRequestsAreLatest ==
    (/\ activityScreen.mounted
     /\ activityScreen.activeTab = "requests"
     /\ ~activityScreen.loading
     /\ Quiescent
     /\ \A l \in DOMAIN listeners : listeners[l].status # "failed")
    => activityScreen.requests = LatestRequests

\* The dashboard is mounted for a user who is not an admin or not
\* authenticated.
MountedForNonAdmin ==
    /\ adminDashboard.mounted
    /\ ~adminDashboard.isAuthenticated \/ ~adminDashboard.isAdmin

=============================================================================
